---- MODULE Spec2Model ----
(***************************************************************************)
(* natural-db: the agent execution sandbox (supabase/functions/natural-db). *)
(*                                                                         *)
(* The parts of the program are modelled each with its own                *)
(* specification over the shared variables:                                *)
(*   Spec        the privilege sandbox and the connection pool             *)
(*               (db-utils.ts: handleLLMDbOperation,                       *)
(*               handleSystemDbOperation)                                  *)
(*   SpecPrompt  the prompt versioning store (updateSystemPrompt,          *)
(*               getCurrentSystemPrompt, the system_prompts table)         *)
(*   SpecCron    the scheduler bridge (schedule_prompt and the job body    *)
(*               it registers with pg_cron)                                *)
(*               SpecCronTools: the two scheduler tools alone              *)
(*               SpecRecurring: the tools and the recurring jobs' runs     *)
(*               SpecSchedule: the tools with every argument they take     *)
(*   SpecAgent   the agent loop (the Deno.serve handler)                   *)
(*               SpecAgentLive: the same, run to its end                   *)
(*   SpecLoad    the memory assembler (loadRecentAndRelevantMessages,      *)
(*               loadRecentMessages, searchSimilarMessages)                *)
(*   SpecTurns   the writes of several invocations of the handler          *)
(*   SpecValidation  the validation of the request and of the arguments    *)
(*               of the tools (get_distinct_column_values among them)      *)
(*   SpecTable   the system_prompts table of several conversations         *)
(*   SpecPersonal  the personalization the invocations of a conversation   *)
(*               load and the updates they make to it                      *)
(*   SpecClock   a one-off job and the minutes of the scheduler's clock    *)
(*   SpecQueue   the pool under more operations than it has connections    *)
(*   SpecOwners  the scheduler tools, each call with the conversation its  *)
(*               tools were made for                                       *)
(***************************************************************************)
EXTENDS Naturals, Integers, Sequences, FiniteSets, TLC

VARIABLES
    \* ---- privilege sandbox / connection pool
    pool,        \* the module-level pool singleton: "null" or "ready"
    avail,       \* the pool's stack of available connections
    conns,       \* server-side session state of every connection
    pc,          \* position of each caller in its call
    kind,        \* which entry point the caller is in
    conn,        \* the caller's local variable `connection` (0 = undefined)
    got,         \* number of connections the current call checked out
    rel,         \* number of connection.release() calls of the current call
    relRole,     \* the roles connections had when a restricted call released them
    outcome,     \* what the call returned: "none", "result", "error", "raised"
    escaped,     \* a command of some caller's text ran outside the sandbox
    unguarded,   \* a command of some caller's text ran without the resource
                 \* guards of its call in effect
    gate,        \* what became of the restricted calls in which a setup
                 \* statement was refused: "none" (there was no such call),
                 \* "held" (each returned an error, its text not run) or
                 \* "passed" (one ran its text or returned no error)
    \* ---- prompt versioning store
    rows,        \* the system_prompts rows of one conversation
    upc,         \* position of each updateSystemPrompt caller
    nextVersion, \* the caller's local nextVersion
    newPrompt,   \* the caller's argument newPrompt
    uret,        \* what the call returned: "none", "success", "error"
    pre,         \* the active rows when the call began
    post,        \* the active rows when the call returned
    overlap,     \* two calls have been in progress at the same time
    calls,       \* the texts of the calls that returned success, in order
    faulted,     \* a request to the store failed for a reason of the server
                 \* or the network
    \* ---- scheduler bridge
    jobs,        \* cron.job: job name -> what the row's command holds
    fired,       \* number of runs of each job name since it was registered
    failed,      \* the job names whose last run raised an error
    sret,        \* what the last scheduler tool call returned to the model
    unsch,       \* the latest call of unschedule_prompt, when nothing happened
                 \* to the scheduler since: the job name, what the tool
                 \* returned, and how the call relates to the call before it
    sched,       \* the latest call of schedule_prompt, when nothing happened
                 \* to the scheduler since: its arguments, what the tool
                 \* returned, and how the statement it built reads
    distinct,    \* the latest call of get_distinct_column_values, when no
                 \* other tool was called since: its
                 \* arguments, what the tool returned, whether it went to the
                 \* database
    \* ---- turns of several invocations
    ipc,         \* position of each invocation of the handler
    persisted,   \* what the invocations wrote to the database, in the order
                 \* of the writes: whose write, and what it was
    \* ---- memory assembler
    messages,    \* the messages rows of one conversation
    first_name,  \* profiles.first_name of the conversation's user ("null": none)
    ld,          \* the call of loadRecentAndRelevantMessages made: its
                 \* arguments, what the services did, what it returned
    \* ---- agent loop
    allowedUsernames, \* whether ALLOWED_USERNAMES is set in the environment
    apc,         \* position of the handler
    request,     \* the inbound request
    admitted,    \* the request passed validation and the access checks
    excepted,    \* an exception escaped a step after the body was parsed
    steps,       \* the steps generateText has made in the model turn
    finishReason, \* how the latest of them ended: "tool-calls" or "stop"
    finalResponse, \* result.text of the model turn ("undefined" before it)
    events,      \* what the invocation did, in order: turns saved, bodies
                 \* posted to callbackUrl, the status answered
    response,    \* the HTTP status answered to the original caller ("0" = none)
    toolResult,  \* the tool call of the latest step of the model turn: the
                 \* tool, the outcome of its database call, what the tool
                 \* returned to generateText
    \* ---- the system_prompts table
    system_prompts, \* the rows of the table, of every conversation, in the
                 \* order of their insertion
    sa,          \* each caller's call of updateSystemPrompt: its position,
                 \* its arguments, its local nextVersion
    \* ---- the scheduler's clock
    now,         \* the current minute, counted from the start of a year
    timer,       \* the one-off job registered, if any: when it was
                 \* registered, the instant T asked for, its cron fields,
                 \* whether and when it first ran
    \* ---- the personalization an invocation works with
    \* ---- the tools of an invocation
    boundId,     \* the id createTools was given for the tools of the latest
                 \* call of schedule_prompt or unschedule_prompt that is
                 \* followed with its conversation (<<>>: there was none)
    \* ---- the pool under more operations than it has connections
    op,          \* each operation of db-utils: which handler it is in, its
                 \* position, the connections it holds
    waiters,     \* the operations whose dbPool.connect() is pending, in the
                 \* order of their calls
    begun,       \* the number of invocations that have loaded theirs
    custom       \* each invocation's customSystemPrompt: whether it is
                 \* loaded, how the lookup went, its text, the text of the
                 \* latest successful update at that moment, and the
                 \* personalization the latest model step was given

sbVars == <<pool, avail, conns, pc, kind, conn, got, rel, relRole, outcome, escaped,
           unguarded, gate>>
spVars == <<rows, upc, nextVersion, newPrompt, uret, pre, post, overlap, calls,
           faulted>>
crVars == <<jobs, fired, failed, sret, unsch, sched>>
agVars == <<allowedUsernames, apc, request, admitted, excepted, steps,
           finishReason, finalResponse, events, response, toolResult>>
lmVars == <<messages, first_name, ld>>
tcVars == <<distinct>>
tnVars == <<ipc, persisted>>
tbVars == <<system_prompts, sa>>

\* The later parts of the model, and the earlier ones.
ckVars == <<now, timer>>
pzVars == <<begun, custom>>
plVars == <<op, waiters>>
btVars == <<boundId>>
xtRest == <<tbVars, ckVars, pzVars, plVars>>
xtVars == <<xtRest, btVars>>
oldVars == <<sbVars, spVars, crVars, agVars, lmVars, tcVars, tnVars>>

vars == <<oldVars, xtVars>>
notSandbox == <<spVars, crVars, agVars, lmVars, tcVars, tnVars, xtVars>>
notPrompt == <<sbVars, crVars, agVars, lmVars, tcVars, tnVars, xtVars>>
notCron == <<sbVars, spVars, agVars, lmVars, tcVars, tnVars, xtVars>>
notAgent == <<sbVars, spVars, crVars, lmVars, tcVars, tnVars, xtVars>>
notLoad == <<sbVars, spVars, crVars, agVars, tcVars, tnVars, xtVars>>
notTurns == <<sbVars, spVars, crVars, agVars, lmVars, tcVars, xtVars>>
notTable == <<oldVars, ckVars, pzVars, plVars, btVars>>
notClock == <<oldVars, tbVars, pzVars, plVars, btVars>>
notQueue == <<oldVars, tbVars, ckVars, pzVars, btVars>>

(***************************************************************************)
(* Bounds of the model                                                     *)
(***************************************************************************)
NumProcs == 2   \* calls of the sandbox, each by a caller of its own
MaxCmds == 2    \* commands in one statement text
NumUpdaters == 2 \* calls of updateSystemPrompt, each by a caller of its own
MaxFirings == 2  \* runs of one job that are followed
MaxTurns == 3    \* stored turns of the conversation
MaxRecent == 2   \* largest maxChatHistory passed to the load
NumInvocations == 2 \* invocations of the handler for one conversation
MaxJobs == 1     \* jobs registered at once, where any job name may be asked for
MaxRows == 3     \* rows of system_prompts at which no further call is begun
YearLen == 4     \* minutes of a year of the scheduler's clock
MaxYears == 3    \* years of the scheduler's clock that are followed
MaxLoads == 3    \* invocations that load their personalization
NumOperations == 4 \* operations of db-utils in progress at once

(***************************************************************************)
(* PRIVILEGE SANDBOX                                                       *)
(***************************************************************************)
PoolSize == 3

Procs == 1..NumProcs
Conns == 1..PoolSize

DefaultRole == "default"
roleName == "memories_role"
schemaName == "memories"
SystemPath == "public, extensions, cron"

\* What is kept of a pooled session between calls: its role and the state of
\* its transaction block. Both handlers set the search path before anything
\* reads it and neither restores it, so the path a call finds on checkout is
\* whatever the last user left: it is "inherited" until the call sets it.
FreshConn == [role |-> DefaultRole, txn |-> "idle"]

\* The two resource settings are those of the server until a call sets them.
CheckedOut(s) ==
    [role |-> s.role, path |-> "inherited", txn |-> s.txn,
     statement_timeout |-> 0, max_parallel_workers_per_gather |-> 2]

Kept(c) == [role |-> c.role, txn |-> c.txn]

\* The commands a statement text may hold.
Cmds == {"select", "fail", "reset_role", "set_path", "begin"}

\* The statement texts the model can pass: up to MaxCmds commands.
Texts == UNION {[1..k -> Cmds] : k \in 0..MaxCmds}
(* ---- the database session, as far as the sandbox depends on it -------- *)

\* A statement raises an error: an open transaction block becomes an aborted
\* one, which rejects every further statement until it is rolled back (no
\* code of the program rolls back).
Abort(c) ==
    [c EXCEPT !.txn = IF c.txn = "idle" THEN "idle" ELSE "failed"]

\* One command of a statement text.
Apply(c, cmd) ==
    CASE cmd = "reset_role" -> [c EXCEPT !.role = DefaultRole]
      [] cmd = "set_path"   -> [c EXCEPT !.path = "public"]
      [] cmd = "begin"      -> [c EXCEPT !.txn = "open"]
      [] OTHER              -> c

\* The role and search path the sandbox promises for the caller's commands.
InSandbox(c) == c.role = roleName /\ c.path = schemaName

\* connection.queryObject({text, args: []}): no arguments, so the simple
\* query protocol runs every command of the text in order and stops at the
\* first error. esc records that a command ran outside the sandbox.
RECURSIVE RunCmds(_, _, _)
RunCmds(c, text, esc) ==
    IF text = <<>> THEN [conn |-> c, ok |-> TRUE, escaped |-> esc]
    ELSE IF c.txn = "failed" THEN [conn |-> c, ok |-> FALSE, escaped |-> esc]
    ELSE IF Head(text) = "fail"
         THEN [conn |-> Abort(c), ok |-> FALSE, escaped |-> esc \/ ~InSandbox(c)]
    ELSE RunCmds(Apply(c, Head(text)), Tail(text), esc \/ ~InSandbox(c))

queryObject(c, text) == RunCmds(c, text, FALSE)

\* A statement that succeeds whatever the server says.
AlwaysOk(c, ok) == TRUE

\* Whether a single fixed statement of the handlers can succeed on session c
\* when the server and the network let it (ok).
StmtOk(c, ok) == ok /\ c.txn # "failed"

(* ---- the pool ---------------------------------------------------------- *)

\* dbPool.connect(): the top of the stack of available connections.
Popped(stack) == Tail(stack)

\* A release that is skipped: the connection never goes back on the stack.
ReleaseSkipped(stack, c) == stack

\* connection.release(): the connection goes back on the stack.
Released(stack, c) == <<c>> \o stack

\* A setting made as SET does it: it lasts as long as the session.
SetSession(c, setting, value) ==
    IF setting = "statement_timeout"
    THEN [c EXCEPT !.statement_timeout = value]
    ELSE [c EXCEPT !.max_parallel_workers_per_gather = value]

\* SET LOCAL <setting> = <value> as a statement of its own.
SetLocal(c, setting, value) ==
    IF c.txn = "open" THEN SetSession(c, setting, value) ELSE c

\* The resource guards of handleLLMDbOperation are in effect.
Guarded(c) ==
    c.statement_timeout = 3000 /\ c.max_parallel_workers_per_gather = 0

(* ---- the two handlers -------------------------------------------------- *)
(* Between connect() and release() a handler touches nothing but its own   *)
(* connection, so that stretch is one step of the model; connect() and     *)
(* release() are the steps at which callers meet.                          *)

\* The four statements handleLLMDbOperation runs before the caller's logic.
SetupStatements == 4

\* The effect of the i-th of them on the session, when it succeeds:
\*   1  SET ROLE "memories_role";
\*   2  SET search_path TO "memories";
\*   3  SET LOCAL statement_timeout = 3000;
\*   4  SET LOCAL max_parallel_workers_per_gather = 0;
\* SET LOCAL lasts to the end of the current transaction and changes nothing
\* of the session that outlives it (role, search path, transaction state).
\* Each queryObject call is a statement of its own: outside a transaction
\* block the statement is its own transaction, so the setting ends with the
\* very statement that made it (the server warns that SET LOCAL can only be
\* used in transaction blocks). Inside a block that some earlier text left
\* open the setting lasts while the block does.
SetupEffect(c, i) ==
    CASE i = 1 -> [c EXCEPT !.role = roleName]
      [] i = 2 -> [c EXCEPT !.path = schemaName]
      [] i = 3 -> SetLocal(c, "statement_timeout", 3000)
      [] OTHER -> SetLocal(c, "max_parallel_workers_per_gather", 0)

\* The setup statements from the i-th on, the failAt-th of them throwing
\* (failAt = 0: none is made to fail by the server or the network).
RECURSIVE RunSetup(_, _, _)
RunSetup(c, i, failAt) ==
    IF i > SetupStatements THEN [conn |-> c, ok |-> TRUE]
    ELSE IF ~StmtOk(c, i # failAt) THEN [conn |-> Abort(c), ok |-> FALSE]
    ELSE RunSetup(SetupEffect(c, i), i + 1, failAt)

\* finally of handleLLMDbOperation: RESET ROLE, its failure ignored.
ResetRole(c, ok) ==
    IF StmtOk(c, ok) THEN [c EXCEPT !.role = DefaultRole] ELSE Abort(c)

\* handleLLMDbOperation with the sqlLogic of executeRestrictedSQL, from after
\* connect() to before release(): the setup, the caller's text, the catch
\* block and the role reset.
handleLLMDbOperation(c, failAt, text, resetOk) ==
    LET setup == RunSetup(c, 1, failAt)
        run   == queryObject(setup.conn, text)
        \* the server refused one of the setup statements: the one made to
        \* fail, or all of them in an aborted transaction block
        refused == failAt # 0 \/ c.txn = "failed"
    IN  IF ~setup.ok
        THEN [conn |-> ResetRole(setup.conn, resetOk), outcome |-> "error",
              ran |-> FALSE, escaped |-> FALSE, guarded |-> TRUE,
              refused |-> refused]
        ELSE [conn |-> ResetRole(run.conn, resetOk),
              outcome |-> IF run.ok THEN "result" ELSE "error",
              ran |-> TRUE, escaped |-> run.escaped,
              \* the guards when the first command of the text runs
              guarded |-> text = <<>> \/ Guarded(setup.conn),
              refused |-> refused]

\* handleSystemDbOperation with the sqlLogic of executePrivilegedSQL, from
\* after connect() to before release():
\*   SET search_path TO public, extensions, cron;  then one statement built
\* by the program. failAt: 1 the first throws, 2 the second, 0 neither.
handleSystemDbOperation(c, failAt) ==
    IF ~StmtOk(c, failAt # 1) THEN [conn |-> Abort(c), outcome |-> "error"]
    ELSE LET c1 == [c EXCEPT !.path = SystemPath]
         IN  IF ~StmtOk(c1, failAt # 2)
             THEN [conn |-> Abort(c1), outcome |-> "error"]
             ELSE [conn |-> c1, outcome |-> "result"]

\* Every pooled session a call can find on checkout.
Sessions == [role : {DefaultRole, roleName}, txn : {"idle", "open", "failed"}]

\* Everything executeRestrictedSQL can do on a session it checked out: any
\* text of the model, any one setup statement failing, the reset failing.
RestrictedResults ==
    [s \in Sessions |->
        { handleLLMDbOperation(CheckedOut(s), in[1], in[2], resetOk) :
            in \in ({0} \X Texts) \cup ((1..SetupStatements) \X {<<>>, <<"select">>}),
            resetOk \in BOOLEAN }]

\* Everything executePrivilegedSQL can do on a session it checked out.
PrivilegedResults ==
    [s \in Sessions |->
        { handleSystemDbOperation(CheckedOut(s), failAt) : failAt \in 0..2 }]

\* executeRestrictedSQL / executePrivilegedSQL is called; the handler's first
\* line, ensureDbPool(), runs outside the try block: a failure to build the
\* pool is thrown to the caller.
ensureDbPool(p) ==
    /\ pc[p] = "idle"
    /\ \E k \in {"restricted", "privileged"}, ok \in BOOLEAN :
          /\ kind' = [kind EXCEPT ![p] = k]
          /\ IF pool = "ready" \/ ok
             THEN /\ pool' = "ready"
                  /\ pc' = [pc EXCEPT ![p] = "connect"]
                  /\ UNCHANGED outcome
             ELSE /\ pool' = pool
                  /\ pc' = [pc EXCEPT ![p] = "done"]
                  /\ outcome' = [outcome EXCEPT ![p] = "raised"]
    /\ UNCHANGED <<notSandbox, avail, conns, conn, got, rel, relRole, escaped, unguarded, gate>>

\* connection = await dbPool.connect(): waits while no connection is
\* available, or throws (the catch block then builds the error outcome, and
\* finally finds no connection to reset or release).
Connect(p) ==
    /\ pc[p] = "connect"
    /\ \E ok \in BOOLEAN :
          IF ok
          THEN /\ avail # <<>>
               /\ conn' = [conn EXCEPT ![p] = Head(avail)]
               /\ avail' = Popped(avail)
               /\ got' = [got EXCEPT ![p] = got[p] + 1]
               /\ pc' = [pc EXCEPT ![p] = "body"]
               /\ UNCHANGED outcome
          ELSE /\ outcome' = [outcome EXCEPT ![p] = "error"]
               /\ pc' = [pc EXCEPT ![p] = "done"]
               /\ UNCHANGED <<conn, avail, got>>
    /\ UNCHANGED <<notSandbox, pool, conns, kind, rel, relRole, escaped, unguarded, gate>>

\* The body of handleLLMDbOperation on the caller's connection.
Restricted(p) ==
    /\ pc[p] = "body"
    /\ kind[p] = "restricted"
    /\ \E r \in RestrictedResults[conns[conn[p]]] :
          /\ conns' = [conns EXCEPT ![conn[p]] = Kept(r.conn)]
          /\ outcome' = [outcome EXCEPT ![p] = r.outcome]
          /\ escaped' = (escaped \/ r.escaped)
          /\ unguarded' = (unguarded \/ ~r.guarded)
          /\ gate' = IF ~r.refused THEN gate
                     ELSE IF r.ran \/ r.outcome # "error" \/ gate = "passed"
                          THEN "passed" ELSE "held"
    /\ pc' = [pc EXCEPT ![p] = "release"]
    /\ UNCHANGED <<notSandbox, pool, avail, kind, conn, got, rel, relRole>>

\* The body of handleSystemDbOperation on the caller's connection.
Privileged(p) ==
    /\ pc[p] = "body"
    /\ kind[p] = "privileged"
    /\ \E r \in PrivilegedResults[conns[conn[p]]] :
          /\ conns' = [conns EXCEPT ![conn[p]] = Kept(r.conn)]
          /\ outcome' = [outcome EXCEPT ![p] = r.outcome]
    /\ pc' = [pc EXCEPT ![p] = "release"]
    /\ UNCHANGED <<notSandbox, pool, avail, kind, conn, got, rel, relRole, escaped, unguarded, gate>>

\* finally, last part of both handlers: if (connection) connection.release();
\* then the handler returns the outcome.
Release(p) ==
    /\ pc[p] = "release"
    /\ avail' = Released(avail, conn[p])
    /\ rel' = [rel EXCEPT ![p] = rel[p] + 1]
    /\ relRole' = IF kind[p] = "restricted"
                  THEN relRole \cup {conns[conn[p]].role}
                  ELSE relRole
    /\ conn' = [conn EXCEPT ![p] = 0]
    /\ pc' = [pc EXCEPT ![p] = "done"]
    /\ UNCHANGED <<notSandbox, pool, conns, kind, got, outcome, escaped, unguarded, gate>>

SandboxInit ==
    /\ pool = "null"
    /\ avail = [i \in 1..PoolSize |-> i]
    /\ conns = [c \in Conns |-> FreshConn]
    /\ pc = [p \in Procs |-> "idle"]
    /\ kind = [p \in Procs |-> "restricted"]
    /\ conn = [p \in Procs |-> 0]
    /\ got = [p \in Procs |-> 0]
    /\ rel = [p \in Procs |-> 0]
    /\ relRole = {}
    /\ outcome = [p \in Procs |-> "none"]
    /\ escaped = FALSE
    /\ unguarded = FALSE
    /\ gate = "none"

SandboxNext ==
    \E p \in Procs :
        \/ ensureDbPool(p)
        \/ Connect(p)
        \/ Restricted(p)
        \/ Privileged(p)
        \/ Release(p)

(***************************************************************************)
(* PROMPT VERSIONING STORE                                                 *)
(* The system_prompts rows of one conversation, in insertion order, and    *)
(* the callers of updateSystemPrompt for that conversation. The three      *)
(* requests of updateSystemPrompt are three separate round trips to the    *)
(* store; each can fail, and requests of other callers can come between.   *)
(***************************************************************************)
Updaters == 1..NumUpdaters
Prompts == {"be formal", "be casual"}

\* The indexes of the rows with is_active = true.
ActiveRows(rs) == {i \in 1..Len(rs) : rs[i].is_active}

\* .update({ is_active: false }).eq('chat_id', chatId).eq('is_active', true)
Deactivated(rs) == [i \in 1..Len(rs) |-> [rs[i] EXCEPT !.is_active = FALSE]]

RECURSIVE MaxVersion(_)
MaxVersion(rs) ==
    IF rs = <<>> THEN 0
    ELSE LET m == MaxVersion(Tail(rs))
         IN  IF Head(rs).version > m THEN Head(rs).version ELSE m

\* .select('version').order('version', { ascending: false }).limit(1), then
\* nextVersion = versionData && versionData.length > 0
\*                 ? versionData[0].version + 1 : 1
\* versionError is not looked at: a failed select leaves versionData null.
NextVersion(rs, ok) ==
    IF ok /\ rs # <<>> THEN MaxVersion(rs) + 1 ELSE 1

\* The table without its partial unique index: any insert is accepted.
NoUniqueIndex(rs) == TRUE

\* idx_system_prompts_chat_active: UNIQUE (chat_id) WHERE is_active = true.
\* Whether the store accepts a new active row for the conversation.
UniqueActive(rs) == ActiveRows(rs) = {}

\* .insert({chat_id, prompt_content, version, created_by_role, description,
\*          is_active: true})
Inserted(rs, text, version) ==
    Append(rs, [version |-> version, prompt_content |-> text, is_active |-> TRUE])

\* getCurrentSystemPrompt: the newest active row's prompt_content, or null.
getCurrentSystemPrompt(rs) ==
    IF ActiveRows(rs) = {} THEN "null"
    ELSE rs[CHOOSE i \in ActiveRows(rs) : \A j \in ActiveRows(rs) : j <= i].prompt_content

InProgress(p) == upc[p] \in {"deactivate", "version", "insert"}

\* updateSystemPrompt(chatId, newPrompt, description) is called.
UpdateCall(p) ==
    /\ upc[p] = "idle"
    /\ \E text \in Prompts : newPrompt' = [newPrompt EXCEPT ![p] = text]
    /\ upc' = [upc EXCEPT ![p] = "deactivate"]
    /\ pre' = [pre EXCEPT ![p] = ActiveRows(rows)]
    /\ overlap' = (overlap \/ \E q \in Updaters : InProgress(q))
    /\ UNCHANGED <<notPrompt, rows, nextVersion, uret, post, calls, faulted>>

\* First request: deactivate the active rows; on deactivateError return.
UpdateDeactivate(p) ==
    /\ upc[p] = "deactivate"
    /\ \E ok \in BOOLEAN :
          IF ok
          THEN /\ rows' = Deactivated(rows)
               /\ upc' = [upc EXCEPT ![p] = "version"]
               /\ UNCHANGED <<uret, faulted>>
          ELSE /\ uret' = [uret EXCEPT ![p] = "error"]
               /\ upc' = [upc EXCEPT ![p] = "done"]
               /\ faulted' = TRUE
               /\ UNCHANGED rows
    /\ post' = [post EXCEPT ![p] = ActiveRows(rows')]
    /\ UNCHANGED <<notPrompt, nextVersion, newPrompt, pre, overlap, calls>>

\* Second request: read the highest version.
UpdateVersion(p) ==
    /\ upc[p] = "version"
    /\ \E ok \in BOOLEAN :
          /\ nextVersion' = [nextVersion EXCEPT ![p] = NextVersion(rows, ok)]
          /\ faulted' = (faulted \/ ~ok)
    /\ upc' = [upc EXCEPT ![p] = "insert"]
    /\ UNCHANGED <<notPrompt, rows, newPrompt, uret, pre, post, overlap, calls>>

\* Third request: insert the new active row; on insertError return the
\* error, else return success.
UpdateInsert(p) ==
    /\ upc[p] = "insert"
    /\ \E ok \in BOOLEAN :
          /\ IF ok /\ UniqueActive(rows)
             THEN /\ rows' = Inserted(rows, newPrompt[p], nextVersion[p])
                  /\ uret' = [uret EXCEPT ![p] = "success"]
                  /\ calls' = Append(calls, newPrompt[p])
             ELSE /\ uret' = [uret EXCEPT ![p] = "error"]
                  /\ UNCHANGED <<rows, calls>>
          /\ faulted' = (faulted \/ ~ok)
    /\ upc' = [upc EXCEPT ![p] = "done"]
    /\ post' = [post EXCEPT ![p] = ActiveRows(rows')]
    /\ UNCHANGED <<notPrompt, nextVersion, newPrompt, pre, overlap>>

PromptInit ==
    /\ rows = <<>>
    /\ upc = [p \in Updaters |-> "idle"]
    /\ nextVersion = [p \in Updaters |-> 0]
    /\ newPrompt = [p \in Updaters |-> "null"]
    /\ uret = [p \in Updaters |-> "none"]
    /\ pre = [p \in Updaters |-> {}]
    /\ post = [p \in Updaters |-> {}]
    /\ overlap = FALSE
    /\ calls = <<>>
    /\ faulted = FALSE

PromptNext ==
    \E p \in Updaters :
        \/ UpdateCall(p)
        \/ UpdateDeactivate(p)
        \/ UpdateVersion(p)
        \/ UpdateInsert(p)

(***************************************************************************)
(* SCHEDULER BRIDGE                                                        *)
(* Strings the program builds or matches are sequences of characters.      *)
(***************************************************************************)
OneOffPrefix == <<"o", "n", "e", "_", "o", "f", "f">>
CronPrefix == <<"c", "r", "o", "n">>

\* The conversations and the job_name arguments of the model's tool calls.
ChatIds == {<<"4">>, <<"4", "2">>}
Hints == {<<"r">>}

SafeChars ==
    {"a", "b", "c", "e", "f", "n", "o", "r", "0", "2", "4", "_"}

\* s.replace(/[^a-zA-Z0-9_]/g, "_")
Sanitized(s) == [i \in 1..Len(s) |-> IF s[i] \in SafeChars THEN s[i] ELSE "_"]

\* A suffix that is not cut.
WholeText(s, n) == s

\* .substring(0, 18)
SuffixLen == 18
Substring(s, n) == SubSeq(s, 1, IF Len(s) < n THEN Len(s) ELSE n)

\* finalJobName of schedule_prompt, for a job_name that is given.
finalJobName(isOneOff, id, job_name) ==
    (IF isOneOff THEN OneOffPrefix ELSE CronPrefix)
        \o <<"_">> \o Sanitized(id)
        \o <<"_">> \o Substring(Sanitized(job_name), SuffixLen)

JobNames == {finalJobName(k, id, h) : k \in BOOLEAN, id \in ChatIds, h \in Hints}

\* A job name the validation lets through whatever it is.
AnyJobName(name) == TRUE

\* isValidJobName: JOB_NAME_REGEX = /^[a-zA-Z0-9_]+$/
isValidJobName(name) ==
    name # <<>> /\ \A i \in 1..Len(name) : name[i] \in SafeChars

\* job_name arguments beyond Hints: one with a character outside
\* [a-zA-Z0-9_], the text it is sanitized to, one longer than SuffixLen.
UnsafeHint == <<"r", "-">>
UnderscoreHint == <<"r", "_">>
LongHint == [i \in 1..(SuffixLen + 1) |-> IF i <= SuffixLen THEN "a" ELSE "b"]
JobNameArgs == Hints \cup {UnsafeHint, LongHint}

\* The conversations a request can name: the id is any text or number (the
\* ids of group chats are negative numbers).
ConversationIds == ChatIds \cup {<<"-", "4">>}

\* Every name schedule_prompt builds for them.
AllJobNames ==
    {finalJobName(k, id, h) :
        k \in BOOLEAN, id \in ConversationIds, h \in JobNameArgs}

\* job_name arguments of unschedule_prompt: the names of jobs, none, and a
\* text that is no job name.
UnscheduleArgs == AllJobNames \cup {<<>>, <<"r", "'">>}

\* schedule_expression arguments: an ISO 8601 timestamp with its zone, a
\* cron expression, and a text that is neither.
ScheduleExpressions == {<<"2", "T", "0", "Z">>, <<"*">>, <<"*", "'", ")">>}

\* The characters of a timestamp new Date() takes.
DateChars == {"0", "2", "4", "T", "Z", "-", ":"}

\* isOneOff of schedule_prompt: the expression parses as a date, holds a T
\* and holds a Z (or ends in an offset).
IsOneOff(schedule_expression) ==
    /\ schedule_expression # <<>>
    /\ \A i \in 1..Len(schedule_expression) : schedule_expression[i] \in DateChars
    /\ \E i \in 1..Len(schedule_expression) : schedule_expression[i] = "T"
    /\ \E i \in 1..Len(schedule_expression) : schedule_expression[i] = "Z"

\* prompt_to_schedule arguments.
PromptsToSchedule == {<<"h", "'">>, <<"$", "$">>}

\* payloadForCron = JSON.stringify({userPrompt, id, userId, metadata: {...,
\* originalUserMessage}, ...}): the prompt stands in it twice; JSON escapes
\* the double quote, the backslash and control characters only.
payloadForCron(prompt_to_schedule) ==
    <<"{">> \o prompt_to_schedule \o <<",">> \o prompt_to_schedule \o <<"}">>

\* escapedPayload = payloadForCron.replace(/'/g, "''")
RECURSIVE escapedPayload(_)
escapedPayload(payload) ==
    IF payload = <<>> THEN <<>>
    ELSE (IF Head(payload) = "'" THEN <<"'", "'">> ELSE <<Head(payload)>>)
            \o escapedPayload(Tail(payload))

\* cronCallbackUrl is built from the environment's SUPABASE_URL.
cronCallbackUrl == <<"u">>

\* cronForTimestamp is built from numbers of the parsed date.
cronForTimestamp == <<"0">>

\* sqlCommand of schedule_prompt. Of the fixed text only the characters that
\* open and close literals are kept, and the brackets of the call:
\*   SELECT cron.schedule('<name>', '<schedule>', $$ ... url := '<url>',
\*     body := '<payload>'::jsonb ... [cron.unschedule('<name>') ...] $$);
sqlCommand(oneOff, name, schedule_expression, payload) ==
    <<"(", "'">> \o name \o <<"'", ",", "'">>
        \o (IF oneOff THEN cronForTimestamp ELSE schedule_expression)
        \o <<"'", ",", "$", "$", "'">> \o cronCallbackUrl
        \o <<"'", ",", "'">> \o payload \o <<"'">>
        \o (IF oneOff THEN <<";", "'">> \o name \o <<"'">> ELSE <<>>)
        \o <<"$", "$", ")", ";">>

\* How the server reads a statement text: a single quote opens a literal
\* that the next single quote closes, two single quotes inside it being one
\* quote of the literal; $$ opens a literal that the next $$ closes. The
\* result is the text with every literal replaced by "L" ("?" for one that
\* is never closed).
RECURSIVE Lex(_, _, _)
Lex(text, mode, acc) ==
    LET n       == Len(text)
        marks   == {i \in 1..n : text[i] \in {"'", "$"}}
        k       == IF marks = {} THEN n + 1
                   ELSE CHOOSE i \in marks : \A j \in marks : i <= j
        \* the characters before the first quote or dollar sign
        plain   == SubSeq(text, 1, k - 1)
        rest    == SubSeq(text, k, n)
        two(ch) == Len(rest) >= 2 /\ rest[1] = ch /\ rest[2] = ch
        from(m) == SubSeq(rest, m, Len(rest))
        kept    == IF mode = "sql" THEN acc \o plain ELSE acc
    IN  IF rest = <<>> THEN (IF mode = "sql" THEN kept ELSE Append(kept, "?"))
        ELSE IF mode = "sql"
             THEN IF rest[1] = "'" THEN Lex(from(2), "quote", kept)
                  ELSE IF two("$") THEN Lex(from(3), "dollar", kept)
                  ELSE Lex(from(2), "sql", Append(kept, "$"))
        ELSE IF mode = "quote"
             THEN IF two("'") THEN Lex(from(3), "quote", kept)
                  ELSE IF rest[1] = "'" THEN Lex(from(2), "sql", Append(kept, "L"))
                  ELSE Lex(from(2), "quote", kept)
        ELSE IF two("$") THEN Lex(from(3), "sql", Append(kept, "L"))
             ELSE Lex(from(2), "dollar", kept)

\* The statement the program means to send: one call of cron.schedule with
\* three literals.
ScheduleStatement == <<"(", "L", ",", "L", ",", "L", ")", ";">>

\* jobname LIKE pattern: _ matches one character, % any run of characters.
RECURSIVE Like(_, _)
Like(str, pat) ==
    IF pat = <<>> THEN str = <<>>
    ELSE IF Head(pat) = "%"
         THEN Like(str, Tail(pat)) \/ (str # <<>> /\ Like(Tail(str), pat))
    ELSE /\ str # <<>>
         /\ Head(pat) = "_" \/ Head(pat) = Head(str)
         /\ Like(Tail(str), Tail(pat))

\* getActiveCronJobDetails(chatId): the registered (active) jobs whose name
\* is LIKE one_off_<chatId>_% or LIKE cron_<chatId>_%.
getActiveCronJobDetails(js, chatId) ==
    {j \in DOMAIN js :
        \/ Like(j, OneOffPrefix \o <<"_">> \o chatId \o <<"_", "%">>)
        \/ Like(j, CronPrefix \o <<"_">> \o chatId \o <<"_", "%">>)}

\* cron.schedule(name, schedule, command): registers the job, or replaces
\* the row of that name. The row is remembered with the call it is of: the
\* kind, the conversation and the job_name argument.
Scheduled(js, name, isOneOff, id, job_name) ==
    [j \in DOMAIN js \cup {name} |->
        IF j = name THEN [oneOff |-> isOneOff, id |-> id, hint |-> job_name]
        ELSE js[j]]

\* An unschedule that removes nothing.
NothingRemoved(js, name) == js

\* cron.unschedule(name): removes the row of that name.
Unscheduled(js, name) == [j \in DOMAIN js \ {name} |-> js[j]]

\* One run of the body registered for a one-off job, in the transaction the
\* scheduler gives the run:
\*   DO $job$ BEGIN
\*     PERFORM net.http_post(...); PERFORM cron.unschedule(name);
\*   EXCEPTION WHEN OTHERS THEN
\*     RAISE NOTICE ...;
\*     BEGIN PERFORM cron.unschedule(name); RAISE NOTICE ...;
\*     EXCEPTION WHEN OTHERS THEN RAISE NOTICE 'CRITICAL ...'; END;
\*     RAISE;
\*   END; $job$;
\* An error in the block undoes the block's work and enters the handler; the
\* handler unschedules the job and then re-raises the error, which ends the
\* DO statement with an error, and the run's transaction is rolled back:
\* cron.job is then as it was before the run.
OneOffBody(js, name, postOk, unscheduleOk, handlerUnscheduleOk) ==
    IF postOk /\ unscheduleOk /\ name \in DOMAIN js
    THEN [jobs |-> Unscheduled(js, name), raised |-> FALSE, posted |-> TRUE]
    ELSE LET inHandler == IF handlerUnscheduleOk /\ name \in DOMAIN js
                          THEN Unscheduled(js, name) ELSE js
             reraised  == TRUE
         IN  [jobs |-> IF reraised THEN js ELSE inHandler,
              raised |-> reraised, posted |-> FALSE]

\* No call of unschedule_prompt to remember.
NoCall ==
    [name |-> <<>>, ret |-> "none", reason |-> "none", again |-> FALSE,
     same |-> FALSE, executed |-> FALSE]

\* No call of get_distinct_column_values to remember.
NoDistinct ==
    [called |-> FALSE, table_name |-> <<>>, column_name |-> <<>>,
     ret |-> "none", executed |-> FALSE]

\* No call of schedule_prompt to remember.
NoSchedule ==
    [called |-> FALSE, id |-> <<>>, job_name |-> <<>>, oneOff |-> FALSE,
     ret |-> "none", reported |-> <<>>, statement |-> <<>>]

\* The sandbox state a scheduler tool leaves alone: all of it but the pool,
\* which its executePrivilegedSQL call builds when it is the first to need it.
notPool ==
    <<avail, conns, pc, kind, conn, got, rel, relRole, outcome, escaped, unguarded, gate>>

\* executePrivilegedSQL(sqlCommand) as a tool sees it: ensureDbPool() throws
\* when the pool is not there and cannot be built; every later failure comes
\* back as { error }, success as { result }.
PrivilegedOutcomes(pl) ==
    IF pl = "ready" THEN {"result", "error"} ELSE {"result", "error", "raised"}

PoolAfter(pl, o) == IF o = "raised" THEN pl ELSE "ready"

\* schedule_prompt: registers the job through executePrivilegedSQL and
\* returns the confirmation, or the error of executePrivilegedSQL.
SchedulePrompt(id, isOneOff, job_name) ==
    LET name == finalJobName(isOneOff, id, job_name)
    IN  \E o \in PrivilegedOutcomes(pool) :
           /\ pool' = PoolAfter(pool, o)
           /\ IF o = "result"
              THEN /\ jobs' = Scheduled(jobs, name, isOneOff, id, job_name)
                   /\ fired' = IF name \in DOMAIN jobs THEN fired
                               ELSE [fired EXCEPT ![name] = 0]
                   /\ failed' = IF name \in DOMAIN jobs THEN failed ELSE failed \ {name}
                   /\ sret' = "scheduled"
              ELSE /\ sret' = o
                   /\ UNCHANGED <<jobs, fired, failed>>

Schedule ==
    /\ \E id \in ChatIds, isOneOff \in BOOLEAN, job_name \in Hints :
          SchedulePrompt(id, isOneOff, job_name)
    /\ unsch' = NoCall
    /\ distinct' = NoDistinct
    /\ UNCHANGED <<spVars, agVars, lmVars, tnVars, xtVars, notPool, sched>>

\* schedule_prompt with any of the arguments the model can give it. What is
\* remembered of the call: the name in the confirmation
\* (finalJobName || jobIdResult) and the statement as the server reads it.
SchedulePromptCall(id, schedule_expression, prompt_to_schedule, job_name) ==
    LET oneOff == IsOneOff(schedule_expression)
        name   == finalJobName(oneOff, id, job_name)
        text   == sqlCommand(oneOff, name, schedule_expression,
                             escapedPayload(payloadForCron(prompt_to_schedule)))
    IN  /\ SchedulePrompt(id, oneOff, job_name)
        /\ sched' =
              [called |-> TRUE, id |-> id, job_name |-> job_name,
               oneOff |-> oneOff, ret |-> sret',
               reported |-> IF sret' = "scheduled" THEN name ELSE <<>>,
               statement |-> Lex(text, "sql", <<>>)]

ScheduleAny ==
    /\ Cardinality(DOMAIN jobs) < MaxJobs
    /\ \E id \in ConversationIds, schedule_expression \in ScheduleExpressions,
          prompt_to_schedule \in PromptsToSchedule, job_name \in JobNameArgs :
          SchedulePromptCall(id, schedule_expression, prompt_to_schedule, job_name)
    /\ unsch' = NoCall
    /\ distinct' = NoDistinct
    /\ UNCHANGED <<spVars, agVars, lmVars, tnVars, xtVars, notPool>>

\* schedule_prompt of the tools createTools made for the conversation id,
\* with a job_name among them two that are sanitized to the same text: a
\* new job while there is room, or the name of a job there is.
ScheduleBy ==
    /\ \E id \in ConversationIds, isOneOff \in BOOLEAN,
          job_name \in JobNameArgs \cup {UnderscoreHint} :
          /\ \/ Cardinality(DOMAIN jobs) < MaxJobs
             \/ finalJobName(isOneOff, id, job_name) \in DOMAIN jobs
          /\ SchedulePrompt(id, isOneOff, job_name)
          /\ boundId' = id
    /\ unsch' = NoCall
    /\ distinct' = NoDistinct
    /\ UNCHANGED <<spVars, agVars, lmVars, tnVars, xtRest, notPool, sched>>

\* The statement SELECT cron.unschedule('<job_name>') on the job table js:
\* it removes the row of that name, and raises "could not find valid entry
\* for job" when there is none. ok: the server and the network let it run.
CronUnschedule(js, name, ok) ==
    IF ~ok THEN [jobs |-> js, error |-> "failed"]
    ELSE IF name \notin DOMAIN js THEN [jobs |-> js, error |-> "not_found"]
    ELSE [jobs |-> Unscheduled(js, name), error |-> "none"]

\* What unschedule_prompt returns for the outcome of its statement:
\*   if (unscheduleResult.error) return { error: unscheduleResult.error };
\*   return `Job '${job_name}' has been successfully unscheduled and removed.`;
UnscheduleReturn(error) ==
    IF error = "none" THEN [ret |-> "confirmation", reason |-> "none"]
    ELSE [ret |-> "error", reason |-> error]

\* unschedule_prompt(job_name):
\*   if (!job_name) return { error: "Job name is required for unscheduling." };
\*   if (!isValidJobName(job_name)) return { error: "Invalid job name format..." };
\* then cron.unschedule(job_name) through executePrivilegedSQL.
UnschedulePrompt(job_name) ==
    IF job_name = <<>> \/ ~isValidJobName(job_name)
    THEN /\ sret' = "error"
         /\ unsch' =
               [name |-> job_name, ret |-> "error",
                reason |-> IF job_name = <<>> THEN "required" ELSE "invalid_format",
                again |-> FALSE, same |-> TRUE, executed |-> FALSE]
         /\ UNCHANGED <<pool, jobs>>
    ELSE \E o \in PrivilegedOutcomes(pool) :
          LET r   == CronUnschedule(jobs, job_name, o = "result")
              ret == IF o = "raised" THEN [ret |-> "raised", reason |-> "pool"]
                     ELSE UnscheduleReturn(r.error)
          IN  /\ pool' = PoolAfter(pool, o)
              /\ jobs' = IF o = "raised" THEN jobs ELSE r.jobs
              /\ sret' = IF ret.ret = "confirmation" THEN "unscheduled" ELSE ret.ret
              /\ unsch' =
                    [name |-> job_name, ret |-> ret.ret, reason |-> ret.reason,
                     \* the call before it removed this very job
                     again |-> unsch.name = job_name /\ unsch.ret = "confirmation",
                     \* the jobs are as the call before it left them
                     same |-> jobs' = jobs,
                     \* executePrivilegedSQL was called
                     executed |-> TRUE]

\* unschedule_prompt with the name of a job the program can have built.
Unschedule ==
    /\ \E name \in JobNames : UnschedulePrompt(name)
    /\ distinct' = NoDistinct
    /\ UNCHANGED <<spVars, agVars, lmVars, tnVars, xtVars, notPool, fired, failed, sched>>

\* unschedule_prompt with any of the arguments the model can give it.
UnscheduleAny ==
    /\ \E job_name \in UnscheduleArgs : UnschedulePrompt(job_name)
    /\ sched' = NoSchedule
    /\ distinct' = NoDistinct
    /\ UNCHANGED <<spVars, agVars, lmVars, tnVars, xtVars, notPool, fired, failed>>

\* unschedule_prompt of the tools createTools made for the conversation id:
\* execute reads job_name only, the id is not used in it.
UnscheduleBy ==
    /\ \E job_name \in UnscheduleArgs : UnschedulePrompt(job_name)
    /\ \E id \in ConversationIds : boundId' = id
    /\ distinct' = NoDistinct
    /\ UNCHANGED <<spVars, agVars, lmVars, tnVars, xtRest, notPool, fired, failed, sched>>

\* The scheduler runs a one-off job: its cron fields (minute, hour, day of
\* month, month, any weekday) match the minute of T, in every year.
\* failed holds the jobs whose latest run had its callback step raise.
FireOneOff ==
    /\ \E name \in DOMAIN jobs, postOk, unscheduleOk, handlerOk \in BOOLEAN :
          /\ jobs[name].oneOff
          /\ fired[name] < MaxFirings
          /\ LET r == OneOffBody(jobs, name, postOk, unscheduleOk, handlerOk)
             IN  /\ jobs' = r.jobs
                 /\ failed' = IF postOk THEN failed \ {name} ELSE failed \cup {name}
          /\ fired' = [fired EXCEPT ![name] = fired[name] + 1]
    /\ unsch' = NoCall
    /\ UNCHANGED <<notCron, sret, sched>>

\* A recurring body that ends by unscheduling its job, as a one-off body does.
SelfDeleting(js, name, postOk) ==
    [jobs |-> IF postOk THEN Unscheduled(js, name) ELSE js, raised |-> ~postOk]

\* One run of the body registered for a recurring job:
\*   $$ SELECT net.http_post(url := ..., body := ..., headers := ...) $$
\* It posts the callback and touches no job.
RecurringBody(js, name, postOk) == [jobs |-> js, raised |-> ~postOk]

\* The scheduler runs a recurring job.
FireRecurring ==
    /\ \E name \in DOMAIN jobs, postOk \in BOOLEAN :
          /\ ~jobs[name].oneOff
          /\ fired[name] < MaxFirings
          /\ fired' = [fired EXCEPT ![name] = fired[name] + 1]
          /\ LET r == RecurringBody(jobs, name, postOk)
             IN  /\ jobs' = r.jobs
                 /\ failed' = IF r.raised THEN failed \cup {name} ELSE failed \ {name}
    /\ unsch' = NoCall
    /\ UNCHANGED <<notCron, sret, sched>>

CronInit ==
    /\ jobs = <<>>
    /\ fired = [j \in AllJobNames |-> 0]
    /\ failed = {}
    /\ sret = "none"
    /\ unsch = NoCall
    /\ sched = NoSchedule

CronNext ==
    \/ Schedule
    \/ Unschedule
    \/ FireOneOff
    \/ FireRecurring

(***************************************************************************)
(* AGENT LOOP: the Deno.serve handler of natural-db                        *)
(***************************************************************************)
\* A field of the body: given with a non-empty value, given as the empty
\* string, or absent.
Given == {"given", "empty", "missing"}

Requests ==
    [method : {"POST", "GET"},
     json : BOOLEAN,        \* the body is JSON
     userPrompt : Given,
     id : Given,
     userId : Given,
     callbackUrl : Given,
     metadata : BOOLEAN,    \* the optional metadata is given
     incomingMessageRole : {"user", "system_routine_task", "missing"}]

NoRequest ==
    [method |-> "POST", json |-> TRUE, userPrompt |-> "given", id |-> "given",
     userId |-> "given", callbackUrl |-> "given", metadata |-> TRUE,
     incomingMessageRole |-> "user"]

\* IncomingPayloadSchema.safeParse(raw).success:
\*   userPrompt: z.string().min(1)          id: z.union([z.string(), z.number()])
\*   userId: z.string().uuid().or(z.string())
\*   incomingMessageRole: z.enum([...])     callbackUrl: z.string().url()
\* z.string() accepts the empty string; min(1), url() and the enum do not.
IncomingPayloadSchema(r) ==
    /\ r.userPrompt = "given"
    /\ r.id # "missing"
    /\ r.userId # "missing"
    /\ r.incomingMessageRole # "missing"
    /\ r.callbackUrl = "given"

\* A value of the body is truthy: the empty string is not.
Truthy(field) == field = "given"

\* maxSteps of the generateText call.
maxSteps == 10

\* generateText without its step limit.
NoStepLimit(n) == TRUE

\* generateText goes on to another step after a step that called tools only
\* while the steps made are fewer than maxSteps.
StepLimit(n) == n < maxSteps

errorResponse == "Sorry, an internal error occurred."

Saved(role, text) == [ev |-> "save", role |-> role, text |-> text]
Posted(text) == [ev |-> "post", role |-> "assistant", text |-> text]
Answered(status) == [ev |-> "respond", role |-> "none", text |-> status]

\* The names bound where the catch block of the handler reads them: the
\* handler's parameter and the one variable it declares outside the try
\* block. raw, parsed and the names destructured from parsed.data
\* (callbackUrl among them) are const bindings of the try block.
CatchScope == {"req", "mcpClient"}

\* Reading a name that is not bound throws a ReferenceError.
Bound(name) == name \in CatchScope

\* The handler returns a Response.
Respond(status) ==
    /\ response' = status
    /\ apc' = "finally"

\* The module is loaded: const allowedUsernames = Deno.env.get("ALLOWED_USERNAMES")
LoadModule ==
    /\ apc = "load"
    /\ allowedUsernames' \in BOOLEAN
    /\ apc' = "idle"
    /\ UNCHANGED <<notAgent, toolResult, request, admitted, excepted, steps, finishReason, finalResponse, events,
                   response>>

\* Deno.serve calls the handler; anything but POST is answered 405 before
\* the try block.
Receive ==
    /\ apc = "idle"
    /\ \E r \in Requests :
          /\ request' = r
          /\ IF r.method # "POST"
             THEN /\ response' = "405"
                  /\ apc' = "done"
                  /\ events' = Append(events, Answered("405"))
             ELSE /\ apc' = "json"
                  /\ UNCHANGED <<response, events>>
    /\ UNCHANGED <<notAgent, toolResult, allowedUsernames, admitted, excepted, steps, finishReason, finalResponse>>

\* const raw = await req.json(); throws on a body that is not JSON.
ParseBody ==
    /\ apc = "json"
    /\ apc' = IF request.json THEN "validate" ELSE "catch"
    /\ UNCHANGED <<notAgent, toolResult, allowedUsernames, request, admitted, excepted,
                   steps, finishReason, finalResponse, events, response>>

\* IncomingPayloadSchema.safeParse(raw): 400 when it fails.
Validate ==
    /\ apc = "validate"
    /\ IF IncomingPayloadSchema(request)
       THEN apc' = "params" /\ UNCHANGED response
       ELSE Respond("400")
    /\ UNCHANGED <<notAgent, toolResult, allowedUsernames, request, admitted, excepted,
                   steps, finishReason, finalResponse, events>>

\* if (!id || !userId || !allowedUsernames) return 200 missing_required_parameters
RequiredParameters ==
    /\ apc = "params"
    /\ IF Truthy(request.id) /\ Truthy(request.userId) /\ allowedUsernames
       THEN apc' = "access" /\ UNCHANGED response
       ELSE Respond("200")
    /\ UNCHANGED <<notAgent, toolResult, allowedUsernames, request, admitted, excepted,
                   steps, finishReason, finalResponse, events>>

\* verifyUserChatAccess and the profile / username check: each answers 200
\* with an unauthorized status when it fails; neither throws.
Authorize ==
    /\ apc = "access"
    /\ \E hasAccess, usernameAllowed \in BOOLEAN :
          IF hasAccess /\ usernameAllowed
          THEN /\ apc' = "context"
               /\ admitted' = TRUE
               /\ UNCHANGED response
          ELSE /\ Respond("200")
               /\ UNCHANGED admitted
    /\ UNCHANGED <<notAgent, toolResult, allowedUsernames, request, excepted, steps, finishReason, finalResponse, events>>

\* loadRecentAndRelevantMessages, generateMessageEmbedding and saveMessage of
\* the directive: every failure is swallowed, a failed insert saves nothing.
LoadContext ==
    /\ apc = "context"
    /\ \E inserted \in BOOLEAN :
          events' = IF inserted
                    THEN Append(events, Saved(request.incomingMessageRole, "directive"))
                    ELSE events
    /\ apc' = "schema"
    /\ UNCHANGED <<notAgent, toolResult, allowedUsernames, request, admitted, excepted,
                   steps, finishReason, finalResponse, response>>

\* getChatSchemaDetailsFormatted -> getMemoriesSchemaDetails ->
\* handleLLMDbOperation: every failure comes back as an error outcome, but
\* for ensureDbPool(), which throws. The cron listing and the prompt lookup
\* that follow swallow their failures.
SchemaDetails ==
    /\ apc = "schema"
    /\ \E poolOk \in BOOLEAN :
          IF poolOk
          THEN apc' = "model" /\ UNCHANGED excepted
          ELSE apc' = "catch" /\ excepted' = TRUE
    /\ UNCHANGED <<notAgent, toolResult, allowedUsernames, request, admitted, steps, finishReason, finalResponse,
                   events, response>>

\* The tools of the model turn that go to the database for the model, and
\* no tool call.
ModelTools == {"execute_sql", "schedule_prompt"}
NoTool == [tool |-> "none", outcome |-> "none", ret |-> "none"]

\* A tool that throws what its database call reports.
ToolThrows(o) == IF o = "result" THEN "value" ELSE "thrown"

\* What execute_sql and schedule_prompt return for the outcome of their
\* database call:  if (result.error) return { error: result.error };
\* and else a text. What the call throws the tool throws.
ToolReturn(o) ==
    CASE o = "result" -> "value"
      [] o = "error"  -> "error_value"
      [] OTHER        -> "thrown"

\* const result = await generateText({... maxSteps: 10}): one step of it. A
\* step is a call of the provider, which throws when it fails, and the
\* execution of the tool calls the model asked for in it. After a step with
\* tool calls generateText makes another step while the limit allows it; it
\* returns after a step without tool calls, or at the limit. result.text is
\* the text of the last step and may be blank. By the model turn the pool
\* is built (getMemoriesSchemaDetails went through ensureDbPool), so the
\* database call of a tool returns an outcome. An exception of a tool's
\* execute function is thrown on by generateText.
ModelTurn ==
    /\ apc = "model"
    /\ \E step \in {"throws", "tool-calls", "stop"}, text \in {"", "answer"},
          tool \in ModelTools, o \in PrivilegedOutcomes("ready") :
          LET called == IF step = "tool-calls"
                        THEN [tool |-> tool, outcome |-> o, ret |-> ToolReturn(o)]
                        ELSE NoTool
          IN  IF step = "throws" \/ called.ret = "thrown"
              THEN /\ apc' = "catch"
                   /\ excepted' = TRUE
                   /\ toolResult' = called
                   /\ UNCHANGED <<steps, finishReason, finalResponse>>
              ELSE /\ steps' = steps + 1
                   /\ finishReason' = step
                   /\ toolResult' = called
                   /\ UNCHANGED excepted
                   /\ IF step = "tool-calls" /\ StepLimit(steps + 1)
                      THEN UNCHANGED <<apc, finalResponse>>
                      ELSE apc' = "final" /\ finalResponse' = text
    /\ UNCHANGED <<notAgent, allowedUsernames, request, admitted, events, response>>

\* if (trimmedFinalResponse.length > 0): save the assistant turn (failure
\* swallowed), then fetch(callbackUrl, ...), which throws when the request
\* cannot be made. Then return 200.
FinalAnswer ==
    /\ apc = "final"
    /\ IF finalResponse = ""
       THEN /\ Respond("200")
            /\ UNCHANGED <<events, excepted>>
       ELSE \E inserted, fetched \in BOOLEAN :
               /\ events' = (IF inserted
                             THEN Append(events, Saved("assistant", finalResponse))
                             ELSE events) \o <<Posted(finalResponse)>>
               /\ IF fetched
                  THEN Respond("200") /\ UNCHANGED excepted
                  ELSE apc' = "catch" /\ excepted' = TRUE /\ UNCHANGED response
    /\ UNCHANGED <<notAgent, toolResult, allowedUsernames, request, admitted, steps, finishReason, finalResponse>>

\* catch (error):
\*   if (callbackUrl && raw?.id && raw?.metadata) {
\*     try { saveMessage(errorResponse); fetch(callbackUrl, errorResponse) }
\*     catch (cbError) {} }
\*   return new Response("Internal Server Error", { status: 500 });
\* The condition reads callbackUrl first: where that name is not bound the
\* read throws, the exception leaves the handler through finally, and
\* Deno.serve answers 500 itself.
Catch ==
    /\ apc = "catch"
    /\ IF Bound("callbackUrl") /\ Bound("raw")
       THEN IF request.json /\ Truthy(request.callbackUrl) /\ Truthy(request.id)
                  /\ request.metadata
            THEN \E inserted \in BOOLEAN :
                    events' = (IF inserted
                               THEN Append(events, Saved("assistant", errorResponse))
                               ELSE events) \o <<Posted(errorResponse)>>
            ELSE UNCHANGED events
       ELSE UNCHANGED events
    /\ Respond("500")
    /\ UNCHANGED <<notAgent, toolResult, allowedUsernames, request, admitted, excepted, steps, finishReason, finalResponse>>

\* finally: close the MCP client, its failure swallowed; the response goes out.
Finally ==
    /\ apc = "finally"
    /\ apc' = "done"
    /\ events' = Append(events, Answered(response))
    /\ UNCHANGED <<notAgent, toolResult, allowedUsernames, request, admitted, excepted,
                   steps, finishReason, finalResponse, response>>

AgentInit ==
    /\ allowedUsernames = FALSE
    /\ apc = "load"
    /\ request = NoRequest
    /\ admitted = FALSE
    /\ excepted = FALSE
    /\ steps = 0
    /\ finishReason = "none"
    /\ finalResponse = "undefined"
    /\ events = <<>>
    /\ response = "0"
    /\ toolResult = NoTool

AgentNext ==
    \/ LoadModule
    \/ Receive
    \/ ParseBody
    \/ Validate
    \/ RequiredParameters
    \/ Authorize
    \/ LoadContext
    \/ SchemaDetails
    \/ ModelTurn
    \/ FinalAnswer
    \/ Catch
    \/ Finally

(***************************************************************************)
(* TOOLS OF THE MODEL TURN: get_distinct_column_values                     *)
(***************************************************************************)
\* table_name and column_name arguments: a name, a text that starts with a
\* digit, a text with a quote.
Identifiers == {<<"n">>, <<"4">>, <<"n", "'">>}

\* isValidIdentifier: IDENTIFIER_REGEX = /^[a-zA-Z_][a-zA-Z0-9_]*$/
isValidIdentifier(name) ==
    /\ name # <<>>
    /\ name[1] \in SafeChars \ {"0", "2", "4"}
    /\ \A i \in 1..Len(name) : name[i] \in SafeChars

\* get_distinct_column_values({ table_name, column_name }):
\*   if (!isValidIdentifier(table_name) || !isValidIdentifier(column_name))
\*     return { error: "Invalid table or column name format." };
\* then SELECT DISTINCT through executeRestrictedSQL, which throws when the
\* pool cannot be built (ensureDbPool) and else returns an outcome.
GetDistinctColumnValues ==
    /\ \E table_name, column_name \in Identifiers :
          IF ~isValidIdentifier(table_name) \/ ~isValidIdentifier(column_name)
          THEN /\ distinct' =
                    [called |-> TRUE, table_name |-> table_name,
                     column_name |-> column_name, ret |-> "error",
                     executed |-> FALSE]
               /\ UNCHANGED pool
          ELSE \E o \in PrivilegedOutcomes(pool) :
                  /\ pool' = PoolAfter(pool, o)
                  /\ distinct' =
                        [called |-> TRUE, table_name |-> table_name,
                         column_name |-> column_name,
                         ret |-> IF o = "result" THEN "distinct_values" ELSE o,
                         executed |-> TRUE]
    /\ unsch' = NoCall
    /\ sched' = NoSchedule
    /\ UNCHANGED <<spVars, agVars, lmVars, tnVars, xtVars, notPool, jobs, fired, failed, sret>>

ToolsInit == distinct = NoDistinct

(***************************************************************************)
(* TURNS OF SEVERAL INVOCATIONS                                            *)
(* Several invocations of the handler for one conversation, as far as the  *)
(* order of their writes goes. Each awaits every write before its next     *)
(* step.                                                                   *)
(***************************************************************************)
Invocations == 1..NumInvocations

Written(i, what) == [invocation |-> i, what |-> what]

\* A row that is stored before the rows already there.
InsertedFirst(log, i, what) == <<Written(i, what)>> \o log

\* A write that the database has done: messages.created_at DEFAULT NOW()
\* puts the row after every row stored before.
InsertedTurn(log, i, what) == Append(log, Written(i, what))

\* The request passed validation and the access checks.
Admit(i) ==
    /\ ipc[i] = "idle"
    /\ ipc' = [ipc EXCEPT ![i] = "directive"]
    /\ UNCHANGED <<notTurns, persisted>>

\* await saveMessage(userId, userPrompt, incomingMessageRole, id, embedding):
\* a failed insert is swallowed and stores nothing.
SaveDirective(i) ==
    /\ ipc[i] = "directive"
    /\ \E inserted \in BOOLEAN :
          persisted' = IF inserted THEN InsertedTurn(persisted, i, "directive")
                       ELSE persisted
    /\ ipc' = [ipc EXCEPT ![i] = "model"]
    /\ UNCHANGED notTurns

\* The tool calls of the model turn write to the database (followed as one
\* write); generateText awaits them before its next step.
ToolEffect(i) ==
    /\ ipc[i] = "model"
    /\ persisted' = InsertedTurn(persisted, i, "tool")
    /\ ipc' = [ipc EXCEPT ![i] = "tools"]
    /\ UNCHANGED notTurns

\* generateText returns (a blank text ends the invocation with nothing
\* saved) or throws.
ModelReturns(i) ==
    /\ ipc[i] \in {"model", "tools"}
    /\ \E answered \in BOOLEAN :
          ipc' = [ipc EXCEPT ![i] = IF answered THEN "final" ELSE "done"]
    /\ UNCHANGED <<notTurns, persisted>>

\* await saveMessage(userId, trimmedFinalResponse, "assistant", id, ...)
SaveAnswer(i) ==
    /\ ipc[i] = "final"
    /\ \E inserted \in BOOLEAN :
          persisted' = IF inserted THEN InsertedTurn(persisted, i, "assistant")
                       ELSE persisted
    /\ ipc' = [ipc EXCEPT ![i] = "done"]
    /\ UNCHANGED notTurns

TurnsInit ==
    /\ ipc = [i \in Invocations |-> "idle"]
    /\ persisted = <<>>

TurnsNext ==
    \E i \in Invocations :
        \/ Admit(i)
        \/ SaveDirective(i)
        \/ ToolEffect(i)
        \/ ModelReturns(i)
        \/ SaveAnswer(i)

(***************************************************************************)
(* MEMORY ASSEMBLER                                                        *)
(* The messages rows of one conversation, each with the time it was        *)
(* created; texts the program builds are kept as the sequence of their     *)
(* parts.                                                                  *)
(***************************************************************************)
Roles == {"user", "assistant"}
Contents == {"hi", "ok"}

\* The currentPrompt arguments: empty, blank, and a text.
DirectiveTexts == {<<>>, <<" ">>, <<"h", "i">>}

MAX_RELEVANT_MESSAGES == 5

\* What can go wrong in one load: the select of the recent rows, the
\* embedding service, or the similarity search (which returns an error
\* outcome, or throws when the pool cannot be built).
Faults == {"none", "recent", "embed", "search_error", "search_throws"}

\* insertMessage: the row gets created_at = NOW(), later than every row there.
InsertedMessage(ms, role, content) ==
    ms \cup {[role |-> role, content |-> content, created_at |-> Cardinality(ms) + 1]}

\* currentPrompt.trim()
RECURSIVE TrimStart(_)
TrimStart(t) ==
    IF t # <<>> /\ Head(t) = " " THEN TrimStart(Tail(t)) ELSE t

\* The list in the same order.
NotReversed(list) == list

\* Array.prototype.reverse()
Reversed(list) == [i \in 1..Len(list) |-> list[Len(list) + 1 - i]]

Trim(t) == Reversed(TrimStart(Reversed(TrimStart(t))))

\* .order("created_at", { ascending: false })
RECURSIVE OrderByCreatedAtDesc(_)
OrderByCreatedAtDesc(ms) ==
    IF ms = {} THEN <<>>
    ELSE LET latest == CHOOSE m \in ms : \A o \in ms : o.created_at <= m.created_at
         IN  <<latest>> \o OrderByCreatedAtDesc(ms \ {latest})

\* .limit(n), LIMIT n
Limit(list, n) == SubSeq(list, 1, IF n < Len(list) THEN n ELSE Len(list))

\* The row loadRecentMessages returns for a stored row: a user's content
\* gets the first name in front when the profile has one.
RecentRow(msg, firstName) ==
    [role |-> msg.role,
     content |-> IF msg.role = "user" /\ firstName # "null"
                 THEN <<firstName, ": ", msg.content>>
                 ELSE <<msg.content>>,
     created_at |-> msg.created_at]

\* The row searchSimilarMessages selects for a stored row:
\*   CASE WHEN m.role = 'user'
\*        THEN CONCAT(COALESCE(p.first_name, 'User'), ': ', m.content)
\*        ELSE m.content END as content
SimilarRow(msg, firstName) ==
    [role |-> msg.role,
     content |-> IF msg.role = "user"
                 THEN <<IF firstName = "null" THEN "User" ELSE firstName, ": ",
                        msg.content>>
                 ELSE <<msg.content>>,
     created_at |-> msg.created_at]

\* loadRecentMessages(supabaseClient, userId, limit, chatId) for the
\* conversation; ok: the select succeeds.
loadRecentMessages(ms, firstName, limit, ok) ==
    IF ~ok THEN [error |-> TRUE, result |-> <<>>]
    ELSE LET recentMessages == Limit(OrderByCreatedAtDesc(ms), limit)
             oldestFirst    == Reversed(recentMessages)
         IN  [error |-> FALSE,
              result |-> [i \in 1..Len(oldestFirst) |->
                            RecentRow(oldestFirst[i], firstName)]]

\* searchSimilarMessages(userId, embedding, maxResults, 0.7, chatId): of the
\* stored rows, those (near) with an embedding whose similarity to the prompt is over
\* the threshold, the maxResults nearest. Which of two rows is nearer is not
\* kept: the rows come in the order of their age.
searchSimilarMessages(near, firstName, maxResults) ==
    LET found == Limit(OrderByCreatedAtDesc(near), maxResults)
    IN  [i \in 1..Len(found) |-> SimilarRow(found[i], firstName)]

\* `${msg.role}:${msg.content}`
RoleContent(msg) == <<msg.role, ":">> \o msg.content

\* The lookup is made whatever the prompt and the history are.
AlwaysLookUp(currentPrompt, chronologicalMessages) == TRUE

\* if (currentPrompt?.trim() && chronologicalMessages.length > 0)
ShouldLookUp(currentPrompt, chronologicalMessages) ==
    Trim(currentPrompt) # <<>> /\ Len(chronologicalMessages) > 0

\* The inner try block: generateEmbedding, searchSimilarMessages, and the
\* filter of the rows whose role:content is among the chronological ones.
Lookup(near, firstName, chronologicalMessages, maxRelevantMessages, fault) ==
    IF fault \in {"embed", "search_throws"}
    THEN [thrown |-> TRUE, relevantContext |-> <<>>]
    ELSE IF fault = "search_error"
    THEN [thrown |-> FALSE, relevantContext |-> <<>>]
    ELSE LET chronologicalSet ==
                 {RoleContent(chronologicalMessages[i]) :
                     i \in 1..Len(chronologicalMessages)}
             NotThere(msg) == RoleContent(msg) \notin chronologicalSet
         IN  [thrown |-> FALSE,
              relevantContext |->
                  SelectSeq(searchSimilarMessages(near, firstName,
                                                  maxRelevantMessages),
                            NotThere)]

\* The inner try block without its catch: the exception goes on.
Rethrown(r) == r

\* catch (error) { console.error(...) } of the inner try block.
Swallowed(r) ==
    IF r.thrown THEN [thrown |-> FALSE, relevantContext |-> <<>>] ELSE r

\* loadRecentAndRelevantMessages(supabaseClient, userId, currentPrompt,
\*                               maxChatHistory, maxRelevantMessages, chatId)
\* looked: generateEmbedding was called. The outer catch returns two empty
\* lists for whatever is thrown inside.
loadRecentAndRelevantMessages(ms, firstName, currentPrompt, maxChatHistory, maxRelevantMessages, near, fault) ==
    LET recentResult == loadRecentMessages(ms, firstName, maxChatHistory,
                                           fault # "recent")
        chronologicalMessages == recentResult.result
        inner == Swallowed(Lookup(near, firstName, chronologicalMessages,
                                  maxRelevantMessages, fault))
    IN  IF recentResult.error
        THEN [chronologicalMessages |-> <<>>, relevantContext |-> <<>>,
              looked |-> FALSE, raised |-> FALSE]
        ELSE IF ~ShouldLookUp(currentPrompt, chronologicalMessages)
        THEN [chronologicalMessages |-> chronologicalMessages,
              relevantContext |-> <<>>, looked |-> FALSE, raised |-> FALSE]
        ELSE IF inner.thrown
        THEN [chronologicalMessages |-> <<>>, relevantContext |-> <<>>,
              looked |-> TRUE, raised |-> FALSE]
        ELSE [chronologicalMessages |-> chronologicalMessages,
              relevantContext |-> inner.relevantContext,
              looked |-> TRUE, raised |-> FALSE]

NoLoad ==
    [called |-> FALSE, currentPrompt |-> <<>>, maxChatHistory |-> 0,
     fault |-> "none",
     out |-> [chronologicalMessages |-> <<>>, relevantContext |-> <<>>,
              looked |-> FALSE, raised |-> FALSE]]

\* saveMessage -> insertMessage: a turn is stored.
SaveMessage ==
    /\ ~ld.called
    /\ Cardinality(messages) < MaxTurns
    /\ \E role \in Roles, content \in Contents :
          messages' = InsertedMessage(messages, role, content)
    /\ UNCHANGED <<notLoad, first_name, ld>>

\* The user's profile gets a first name.
SetFirstName ==
    /\ ~ld.called
    /\ first_name = "null"
    /\ first_name' = "Ann"
    /\ UNCHANGED <<notLoad, messages, ld>>

\* loadRecentAndRelevantMessages is called. near: the stored rows that have
\* an embedding whose similarity to the prompt's is over the threshold.
Load ==
    /\ ~ld.called
    /\ \E currentPrompt \in DirectiveTexts, maxChatHistory \in 0..MaxRecent,
          near \in SUBSET messages, fault \in Faults :
          ld' = [called |-> TRUE, currentPrompt |-> currentPrompt,
                 maxChatHistory |-> maxChatHistory, fault |-> fault,
                 out |-> loadRecentAndRelevantMessages(
                            messages, first_name, currentPrompt, maxChatHistory,
                            MAX_RELEVANT_MESSAGES, near, fault)]
    /\ UNCHANGED <<notLoad, messages, first_name>>

LoadInit ==
    /\ messages = {}
    /\ first_name = "null"
    /\ ld = NoLoad

LoadNext ==
    \/ SaveMessage
    \/ SetFirstName
    \/ Load

(***************************************************************************)
(* THE system_prompts TABLE                                                *)
(* The rows of every conversation, with the columns the program writes.    *)
(* (updated_at, which a trigger of the table sets on every update, and id   *)
(* and created_at, which the database fills in, are not followed.)         *)
(***************************************************************************)
\* The description argument: what the call's new text is about.
Descriptions == [Prompts -> {"tone", "language"}]
describe == CHOOSE d \in Descriptions :
               d["be formal"] = "tone" /\ d["be casual"] = "language"

\* The rows of one conversation, in the order of the table.
OfChat(table, chatId) == SelectSeq(table, LAMBDA r : r.chat_id = chatId)

\* An update without the filter on chat_id.
DeactivatedEverywhere(table, chatId) ==
    [i \in 1..Len(table) |-> [table[i] EXCEPT !.is_active = FALSE]]

\* .update({ is_active: false }).eq('chat_id', chatId).eq('is_active', true)
DeactivatedOf(table, chatId) ==
    [i \in 1..Len(table) |->
        IF table[i].chat_id = chatId /\ table[i].is_active
        THEN [table[i] EXCEPT !.is_active = FALSE]
        ELSE table[i]]

\* .insert({ chat_id: chatId, prompt_content: newPrompt, version: nextVersion,
\*           created_by_role: 'assistant', description, is_active: true })
InsertedRow(table, chatId, text, version, description) ==
    Append(table,
        [chat_id |-> chatId, prompt_content |-> text, version |-> version,
         created_by_role |-> "assistant", description |-> description,
         is_active |-> TRUE])

NoSetActive ==
    [pc |-> "idle", chatId |-> <<>>, newPrompt |-> "null",
     description |-> "null", nextVersion |-> 0, ret |-> "none"]

\* The call has returned: its locals are gone.
Returned(ret) == [NoSetActive EXCEPT !.ret = ret]

\* updateSystemPrompt(chatId, newPrompt, description) is called. The calls
\* are followed one after the other here: each request of a call is a
\* statement of its own on the table, and what it changes depends on the
\* table it finds, whichever calls left it so (the requests of overlapping
\* calls for one conversation are interleaved in SpecPrompt).
TableCall(p) ==
    /\ \A q \in Updaters : sa[q].pc = "idle"
    /\ Len(system_prompts) < MaxRows
    /\ \E chatId \in ChatIds, text \in Prompts :
          sa' = [sa EXCEPT ![p] =
                    [pc |-> "deactivate", chatId |-> chatId, newPrompt |-> text,
                     description |-> describe[text], nextVersion |-> 0,
                     ret |-> "none"]]
    /\ UNCHANGED <<notTable, system_prompts>>

\* First request: deactivate the active rows of the conversation; on
\* deactivateError return the error.
TableDeactivate(p) ==
    /\ sa[p].pc = "deactivate"
    /\ \E ok \in BOOLEAN :
          IF ok
          THEN /\ system_prompts' = DeactivatedOf(system_prompts, sa[p].chatId)
               /\ sa' = [sa EXCEPT ![p].pc = "version"]
          ELSE /\ sa' = [sa EXCEPT ![p] = Returned("error")]
               /\ UNCHANGED system_prompts
    /\ UNCHANGED notTable

\* Second request: the highest version of the conversation's rows.
TableVersion(p) ==
    /\ sa[p].pc = "version"
    /\ \E ok \in BOOLEAN :
          sa' = [sa EXCEPT
                    ![p].pc = "insert",
                    ![p].nextVersion =
                        NextVersion(OfChat(system_prompts, sa[p].chatId), ok)]
    /\ UNCHANGED <<notTable, system_prompts>>

\* Third request: insert the new active row, which the unique index on the
\* active row of a conversation can refuse.
TableInsert(p) ==
    /\ sa[p].pc = "insert"
    /\ \E ok \in BOOLEAN :
          IF ok /\ UniqueActive(OfChat(system_prompts, sa[p].chatId))
          THEN /\ system_prompts' =
                     InsertedRow(system_prompts, sa[p].chatId, sa[p].newPrompt,
                                 sa[p].nextVersion, sa[p].description)
               /\ sa' = [sa EXCEPT ![p] = Returned("success")]
          ELSE /\ sa' = [sa EXCEPT ![p] = Returned("error")]
               /\ UNCHANGED system_prompts
    /\ UNCHANGED notTable

TableInit ==
    /\ system_prompts = <<>>
    /\ sa = [p \in Updaters |-> NoSetActive]

TableNext ==
    \E p \in Updaters :
        \/ TableCall(p)
        \/ TableDeactivate(p)
        \/ TableVersion(p)
        \/ TableInsert(p)

(***************************************************************************)
(* THE PERSONALIZATION OF AN INVOCATION                                    *)
(* The invocations of the handler for one conversation, as far as the      *)
(* personalization goes: each loads customSystemPrompt once, gives it to   *)
(* generateText, and may call update_system_prompt in its model turn.      *)
(* Invocation p is the caller p of updateSystemPrompt.                     *)
(***************************************************************************)
NoCustom ==
    [loaded |-> FALSE, found |-> FALSE, text |-> "null", latest |-> "none",
     step |-> "none"]

\* The text of the latest call of updateSystemPrompt that returned success.
LatestUpdate == IF calls = <<>> THEN "none" ELSE calls[Len(calls)]

\* The personalization a model step works with: generateText is given
\* system: enhancedSystemPrompt once, built from customSystemPrompt before
\* the call; no step reads the table.
StepPrompt(loaded, rs) == loaded

\* A new invocation for the conversation comes to
\*   const customSystemPrompt = await getCurrentSystemPrompt(id);
\* getCurrentSystemPrompt returns null when the lookup fails.
LoadPersonalization(p) ==
    /\ upc[p] \in {"idle", "done"}
    /\ begun < MaxLoads
    /\ begun' = begun + 1
    /\ \E ok \in BOOLEAN :
          custom' = [custom EXCEPT ![p] =
                        [loaded |-> TRUE, found |-> ok,
                         text |-> IF ok THEN getCurrentSystemPrompt(rows)
                                  ELSE "null",
                         latest |-> LatestUpdate, step |-> "none"]]
    \* the locals of the invocation before it are gone
    /\ upc' = [upc EXCEPT ![p] = "idle"]
    /\ uret' = [uret EXCEPT ![p] = "none"]
    /\ nextVersion' = [nextVersion EXCEPT ![p] = 0]
    /\ newPrompt' = [newPrompt EXCEPT ![p] = "null"]
    /\ pre' = [pre EXCEPT ![p] = {}]
    /\ post' = [post EXCEPT ![p] = {}]
    /\ UNCHANGED <<sbVars, crVars, agVars, lmVars, tcVars, tnVars, tbVars, ckVars, plVars, btVars,
                   rows, overlap, calls, faulted>>

\* A step of the model turn, before or after a call of update_system_prompt
\* that has returned.
PersonalizedStep(p) ==
    /\ custom[p].loaded
    /\ upc[p] \in {"idle", "done"}
    /\ custom' = [custom EXCEPT ![p].step = StepPrompt(custom[p].text, rows)]
    /\ UNCHANGED <<oldVars, tbVars, ckVars, plVars, btVars, begun>>

\* The model calls update_system_prompt in the model turn.
UpdateTool(p) ==
    /\ custom[p].loaded
    /\ UpdateCall(p)

PersonalNext ==
    \E p \in Updaters :
        \/ LoadPersonalization(p)
        \/ PersonalizedStep(p)
        \/ UpdateTool(p)
        \/ UpdateDeactivate(p)
        \/ UpdateVersion(p)
        \/ UpdateInsert(p)

PersonalInit ==
    /\ begun = 0
    /\ custom = [p \in Updaters |-> NoCustom]

(***************************************************************************)
(* THE POOL UNDER LOAD                                                     *)
(* More operations of db-utils in progress than the pool has connections:  *)
(* new postgres.Pool(supabaseDbUrl, 3, true). dbPool.connect() gives a     *)
(* connection that is not checked out, or stays pending until one is       *)
(* released; a released connection goes to the call of connect() that has  *)
(* been pending longest.                                                   *)
(***************************************************************************)
Operations == 1..NumOperations

\* An operation is a call of handleLLMDbOperation or of
\* handleSystemDbOperation: the two take, use and release their connection
\* in the same way.
NoOperation == [pc |-> "idle", held |-> 0]

\* The connections that are checked out.
Holders == {o \in Operations : op[o].held > 0}

\* An operation that returns without connection.release().
StillHeld(held) == held

\* finally { if (connection) { try { connection.release(); } catch (_) {} } }
AfterRelease(held) == held - 1

\* const dbPool = ensureDbPool(); connection = await dbPool.connect();
\* The operation gets a connection, or its call is pending; a call that
\* fails throws into the catch with connection undefined.
OperationConnect(o) ==
    /\ op[o].pc = "idle"
    /\ \E ok \in BOOLEAN :
          IF ~ok
          THEN /\ op' = [op EXCEPT ![o] = [pc |-> "finally", held |-> 0]]
               /\ UNCHANGED waiters
          ELSE IF Cardinality(Holders) < PoolSize
          THEN /\ op' = [op EXCEPT ![o] = [pc |-> "try", held |-> 1]]
               /\ UNCHANGED waiters
          ELSE /\ op' = [op EXCEPT ![o] = [pc |-> "connect", held |-> 0]]
               /\ waiters' = Append(waiters, o)
    /\ UNCHANGED notQueue

\* The statements of the try block on the connection: the setup statements
\* and sqlLogic. Whether they return or throw, the finally block is next.
OperationBody(o) ==
    /\ op[o].pc = "try"
    /\ op' = [op EXCEPT ![o].pc = "finally"]
    /\ UNCHANGED <<notQueue, waiters>>

\* The finally block: RESET ROLE in handleLLMDbOperation, then
\* connection.release() if there is a connection. The connection goes to
\* the longest pending call of connect(), if any. The operation returns,
\* and the next operation can begin.
OperationFinally(o) ==
    /\ op[o].pc = "finally"
    /\ LET held == IF op[o].held > 0 THEN AfterRelease(op[o].held) ELSE 0
           handed == op[o].held > held /\ waiters # <<>>
       IN  /\ op' = [q \in Operations |->
                        IF q = o THEN [op[o] EXCEPT !.pc = "idle", !.held = held]
                        ELSE IF handed /\ q = Head(waiters)
                             THEN [op[q] EXCEPT !.pc = "try", !.held = 1]
                        ELSE op[q]]
           /\ waiters' = IF handed THEN Tail(waiters) ELSE waiters
    /\ UNCHANGED notQueue

QueueInit ==
    /\ op = [o \in Operations |-> NoOperation]
    /\ waiters = <<>>

QueueNext ==
    \E o \in Operations :
        \/ OperationConnect(o)
        \/ OperationBody(o)
        \/ OperationFinally(o)

(***************************************************************************)
(* THE SCHEDULER'S CLOCK                                                   *)
(* A one-off job and the minutes at which pg_cron looks at its cron        *)
(* fields. An instant is a number of minutes; the minute, hour, day and    *)
(* month of an instant are its place in its year.                          *)
(***************************************************************************)
Horizon == YearLen * MaxYears

\* cronForTimestamp of schedule_prompt:
\*   `${date.getUTCMinutes()} ${date.getUTCHours()} ${date.getUTCDate()}
\*    ${date.getUTCMonth() + 1} *`
\* the minute, hour, day of month and month of the instant, any weekday; the
\* year of the instant is in no field.
CronFields(T) == T % YearLen

\* pg_cron runs a job in every minute whose minute, hour, day and month are
\* those of the job's fields.
CronMatches(fields, minute) == minute % YearLen = fields

NoTimer ==
    [registered |-> FALSE, at |-> 0, T |-> 0, fields |-> 0,
     ran |-> FALSE, ranAt |-> 0]

\* schedule_prompt with an ISO timestamp of a future instant T: the job is
\* registered with the cron fields of T.
RegisterOneOff ==
    /\ ~timer.registered
    /\ \E T \in (now + 1)..(Horizon - 1) :
          timer' = [registered |-> TRUE, at |-> now, T |-> T,
                    fields |-> CronFields(T), ran |-> FALSE, ranAt |-> 0]
    /\ UNCHANGED <<notClock, now>>

\* A minute passes; pg_cron runs the job if its fields match the new minute.
\* Only the first run is kept (what a run does to the job is OneOffBody).
Minute ==
    /\ now + 1 < Horizon
    /\ now' = now + 1
    /\ timer' = IF timer.registered /\ ~timer.ran
                     /\ CronMatches(timer.fields, now + 1)
                THEN [timer EXCEPT !.ran = TRUE, !.ranAt = now + 1]
                ELSE timer
    /\ UNCHANGED notClock

ClockInit ==
    /\ now = 0
    /\ timer = NoTimer

ClockNext ==
    \/ RegisterOneOff
    \/ Minute

Init ==
    /\ SandboxInit /\ PromptInit /\ CronInit /\ AgentInit /\ LoadInit
    /\ ToolsInit /\ TurnsInit /\ TableInit /\ ClockInit /\ PersonalInit
    /\ QueueInit
    /\ boundId = <<>>

Next == SandboxNext

Spec == Init /\ [][Next]_vars

SpecPrompt == Init /\ [][PromptNext]_vars

SpecCron == Init /\ [][CronNext]_vars

\* The scheduler tools alone, the scheduler running no job meanwhile.
CronToolsNext ==
    \/ Schedule
    \/ Unschedule

SpecCronTools == Init /\ [][CronToolsNext]_vars

\* The scheduler tools and the runs of the recurring jobs. The runs of
\* one-off jobs are left out: OneOffBody unschedules the job it runs for and
\* no other.
RecurringNext ==
    \/ Schedule
    \/ Unschedule
    \/ FireRecurring

SpecRecurring == Init /\ [][RecurringNext]_vars

\* The scheduler tools with every argument the model can give them.
ScheduleNext ==
    \/ ScheduleAny
    \/ UnscheduleAny

SpecSchedule == Init /\ [][ScheduleNext]_vars

SpecLoad == Init /\ [][LoadNext]_vars

SpecAgent == Init /\ [][AgentNext]_vars

SpecTurns == Init /\ [][TurnsNext]_vars

SpecTable == Init /\ [][TableNext]_vars

SpecClock == Init /\ [][ClockNext]_vars

SpecPersonal == Init /\ [][PersonalNext]_vars

\* The scheduler tools of the conversations, each call with the
\* conversation its tools were made for.
OwnersNext ==
    \/ ScheduleBy
    \/ UnscheduleBy

SpecOwners == Init /\ [][OwnersNext]_vars

\* Every await of an operation that has its connection settles: its
\* statements return or throw, and its finally block runs.
SpecQueue ==
    /\ Init /\ [][QueueNext]_vars
    /\ \A o \in Operations :
          /\ WF_vars(OperationBody(o))
          /\ WF_vars(OperationFinally(o))

\* The handler up to the validation of the request, and the tools. A
\* request that passed the validation is not followed step by step through
\* the rest of the handler: what counts of it here is that the model turn it
\* can come to may call the tools, any of them, any number of times.
ToolCall ==
    /\ apc = "params"
    /\ \/ GetDistinctColumnValues
       \/ Schedule
       \/ UnscheduleAny

ValidationNext ==
    \/ LoadModule
    \/ Receive
    \/ ParseBody
    \/ Validate
    \/ Catch
    \/ Finally
    \/ ToolCall

SpecValidation == Init /\ [][ValidationNext]_vars

\* The handler is an async function the runtime runs to its end: every await
\* of it settles.
SpecAgentLive == SpecAgent /\ WF_vars(AgentNext)

(***************************************************************************)
(* CLAIMS                                                                  *)
(***************************************************************************)

\* C1: whenever executeRestrictedSQL releases its connection to the pool, the
\* connection's active role is the default role, whichever step failed.
\* (Stated as the claim states it; the role reset of the finally block can
\* itself fail, and its failure is ignored.)
C1_RoleDefaultAtRelease == relRole \subseteq {DefaultRole}

\* C2: every command of a text given to executeRestrictedSQL runs with the
\* role memories_role active and the search path limited to memories; none
\* runs under the default role.
C2_TextStaysInSandbox == ~escaped

\* C3: every call of either entry point that checked out a connection
\* releases it exactly once on every exit path: the connections out of the
\* pool are exactly those held by calls in progress, no connection is on the
\* stack twice, and a finished call holds none and released as many as it
\* checked out.
C3_ReleasedExactlyOnce ==
    /\ Len(avail) + Cardinality({p \in Procs : conn[p] # 0}) = PoolSize
    /\ \A i, j \in 1..Len(avail) : avail[i] = avail[j] => i = j
    /\ \A p \in Procs : conn[p] # 0 => \A i \in 1..Len(avail) : avail[i] # conn[p]
    /\ \A p \in Procs : pc[p] = "done" => conn[p] = 0 /\ rel[p] = got[p]

\* C3 witness: a restricted call whose role reset failed and a privileged
\* call whose statement failed have both finished, each having checked out
\* and released one connection.
C3_Witness ==
    \E p, q \in Procs :
        /\ pc[p] = "done" /\ kind[p] = "restricted" /\ got[p] = 1 /\ rel[p] = 1
        /\ roleName \in relRole
        /\ pc[q] = "done" /\ kind[q] = "privileged" /\ got[q] = 1 /\ rel[q] = 1
        /\ outcome[q] = "error"
        /\ Len(avail) = PoolSize

\* C4: under any interleaving of updateSystemPrompt calls for the
\* conversation, at most one of its rows has is_active = true.
C4_AtMostOneActive == Cardinality(ActiveRows(rows)) <= 1

\* C4 witness: two calls overlapped, both got past their deactivation, one
\* inserted its active row and the other's insert was refused.
C4_Witness ==
    /\ overlap
    /\ \E p, q \in Updaters :
          /\ upc[p] = "done" /\ uret[p] = "success"
          /\ upc[q] = "done" /\ uret[q] = "error" /\ nextVersion[q] > 0
    /\ Cardinality(ActiveRows(rows)) = 1

\* No call is in progress, no two calls ever overlapped and none returned an
\* error: the calls so far were sequential and all succeeded.
SequentialSuccesses ==
    /\ ~overlap
    /\ \A p \in Updaters : upc[p] \in {"idle", "done"} /\ uret[p] # "error"

\* C5: after N sequential calls on a conversation that started with no rows,
\* exactly one row is active, the rows carry the versions 1..N, only version
\* N is active, and getCurrentSystemPrompt returns the text of the last call.
C5_SequentialVersions ==
    SequentialSuccesses /\ calls # <<>> =>
        /\ Len(rows) = Len(calls)
        /\ \A i \in 1..Len(rows) :
              /\ rows[i].version = i
              /\ rows[i].is_active = (i = Len(rows))
        /\ getCurrentSystemPrompt(rows) = calls[Len(calls)]

\* C6: a call that returns an error leaves the set of active rows, at its
\* return, as it was when the call began (stated for calls that no other
\* call overlapped).
C6_ErrorLeavesActiveRows ==
    \A p \in Updaters :
        ~overlap /\ upc[p] = "done" /\ uret[p] = "error" => post[p] = pre[p]

\* C7: a one-off job fires at most once, and once it has fired it is not in
\* the active job listing of its conversation any more.
C7_OneOffFiresOnce ==
    \A id \in ChatIds, h \in Hints :
        LET name == finalJobName(TRUE, id, h)
        IN  /\ fired[name] <= 1
            /\ fired[name] >= 1 => name \notin getActiveCronJobDetails(jobs, id)

\* C8: a one-off job whose run had its callback step raise an error is
\* unscheduled all the same.
C8_UnscheduledAfterFailedRun ==
    \A id \in ChatIds, h \in Hints :
        LET name == finalJobName(TRUE, id, h)
        IN  name \in failed => name \notin DOMAIN jobs

\* C9: an invocation that passed validation and the access checks has, when
\* it ends, posted the final answer or the generic failure message to the
\* callback URL.
C9_AlwaysDispatches ==
    apc = "done" /\ admitted =>
        \E i \in 1..Len(events) :
            events[i] \in {Posted("answer"), Posted(errorResponse)}

\* C10: when an exception escaped a step after the body was parsed, the
\* invocation has saved the generic failure message as an assistant turn,
\* then posted it to the callback URL, and answered 500.
C10_FailureIsReported ==
    apc = "done" /\ excepted =>
        /\ response = "500"
        /\ \E i, j \in 1..Len(events) :
              /\ i < j
              /\ events[i] = Saved("assistant", errorResponse)
              /\ events[j] = Posted(errorResponse)

\* C11: an invocation whose model turn completed has persisted exactly one
\* new assistant turn, and the directive as a turn of its role.
C11_OneAssistantTurn ==
    apc = "done" /\ finalResponse # "undefined" =>
        /\ Cardinality({i \in 1..Len(events) :
                events[i].ev = "save" /\ events[i].role = "assistant"}) = 1
        /\ \E i \in 1..Len(events) :
              events[i] = Saved(request.incomingMessageRole, "directive")

C20_MissingFieldIsClientError ==
    /\ apc = "done"
    /\ request.method = "POST" /\ request.json
    /\ \/ request.userPrompt # "given"
       \/ request.id # "given"
       \/ request.userId # "given"
       \/ request.callbackUrl # "given"
       \/ request.incomingMessageRole = "missing"
    => response = "400"

\* C13: a call of executeRestrictedSQL never raises to its caller: when it
\* has ended, its outcome is a result or a structured error value.
C13_NeverRaises ==
    \A p \in Procs :
        kind[p] = "restricted" /\ pc[p] = "done" =>
            outcome[p] \in {"result", "error"}

\* C14: of two calls of unschedule_prompt in a row with the same job name,
\* the first having removed the job, the second does not raise: it returns
\* an error value, which says not found whenever the statement could run,
\* and it leaves the registered jobs as the first call left them.
C14_UnscheduleIdempotent ==
    unsch.again =>
        /\ unsch.ret = "error"
        /\ unsch.reason \in {"not_found", "failed"}
        /\ unsch.same

\* The same name unscheduled twice in a row, the second call told by the
\* database that there is no such job, other jobs being registered.
C14_Witness ==
    unsch.again /\ unsch.reason = "not_found" /\ jobs # <<>>

\* C15: unschedule_prompt of a job name that is not registered returns a
\* confirmation to the model, not an error result.
C15_NotFoundIsSoftSuccess ==
    unsch.reason = "not_found" => unsch.ret = "confirmation"

\* The rows a successful load of the recent turns returns, said directly:
\* the k latest stored rows, k = min(maxChatHistory, stored rows), the
\* earliest of them first.
LatestOldestFirst(ms, firstName, maxChatHistory) ==
    LET n == Cardinality(ms)
        k == IF maxChatHistory < n THEN maxChatHistory ELSE n
    IN  [i \in 1..k |->
            RecentRow(CHOOSE m \in ms : m.created_at = n - k + i, firstName)]

\* C16: a load whose select of the recent rows succeeds returns as the
\* chronological list the min(maxChatHistory, stored) latest turns, oldest
\* first.
C16_ChronologicalIsLatestOldestFirst ==
    ld.called /\ ld.fault # "recent" =>
        ld.out.chronologicalMessages =
            LatestOldestFirst(messages, first_name, ld.maxChatHistory)

\* More turns are stored than the load may return, and it returns two.
C16_Witness ==
    /\ ld.called /\ ld.fault = "none"
    /\ Cardinality(messages) = 3 /\ ld.maxChatHistory = 2
    /\ Len(ld.out.chronologicalMessages) = 2
    /\ ld.out.chronologicalMessages[1].created_at = 2

\* C17: the lookup is made only for a prompt that is not blank and a
\* chronological list that is not empty; with maxChatHistory = 0 both lists
\* come back empty, no lookup is made and nothing is raised.
C17_LookupOnlyWhenUseful ==
    ld.called =>
        /\ ld.out.looked =>
              /\ Trim(ld.currentPrompt) # <<>>
              /\ ld.maxChatHistory > 0 /\ messages # {}
        /\ ld.maxChatHistory = 0 =>
              /\ ld.out.chronologicalMessages = <<>>
              /\ ld.out.relevantContext = <<>>
              /\ ~ld.out.looked
              /\ ~ld.out.raised

\* A load with maxChatHistory = 0 of a conversation that has turns, for a
\* prompt that is not blank.
C17_Witness ==
    /\ ld.called /\ ld.maxChatHistory = 0 /\ ld.fault = "none"
    /\ messages # {} /\ Trim(ld.currentPrompt) # <<>>
    /\ ~ld.out.looked

\* C18: no stored turn is in both lists of a load.
C18_NoTurnInBothLists ==
    ld.called =>
        \A i \in 1..Len(ld.out.chronologicalMessages),
           j \in 1..Len(ld.out.relevantContext) :
            ld.out.chronologicalMessages[i].created_at
                # ld.out.relevantContext[j].created_at

\* C19: a load raises nothing; when the embedding or the search fails the
\* relevant list is empty and the chronological list is as loaded; when the
\* select of the recent rows fails both lists are empty.
C19_LoadDegrades ==
    ld.called =>
        /\ ~ld.out.raised
        /\ ld.fault \in {"embed", "search_error", "search_throws"} =>
              /\ ld.out.relevantContext = <<>>
              /\ ld.out.chronologicalMessages =
                    LatestOldestFirst(messages, first_name, ld.maxChatHistory)
        /\ ld.fault = "recent" =>
              /\ ld.out.chronologicalMessages = <<>>
              /\ ld.out.relevantContext = <<>>

\* The embedding service threw in a load that had turns to return.
C19_Witness ==
    /\ ld.called /\ ld.fault = "embed" /\ ld.out.looked
    /\ ld.out.chronologicalMessages # <<>>
    /\ ld.out.relevantContext = <<>>

\* C22: schedule_prompt called with a job_name that holds a character
\* outside [a-zA-Z0-9_] returns an error and registers no job.
C22_UnsafeHintRejected ==
    (sched.called /\ ~isValidJobName(sched.job_name))
        => /\ sched.ret = "error"
           /\ sched.reported = <<>>

\* The prefix and the conversation id of the name of the remembered call.
ReportedHead ==
    (IF sched.oneOff THEN OneOffPrefix ELSE CronPrefix)
        \o <<"_">> \o sched.id \o <<"_">>

C24_ListingIsOwnJobs ==
    \A chatId \in ChatIds :
        \A j \in getActiveCronJobDetails(jobs, chatId) : jobs[j].id = chatId

\* C25: the statement schedule_prompt passes to executePrivilegedSQL reads
\* as the one call of cron.schedule the program wrote: no value of the model
\* or of the request ends the literal it stands in.
C25_StatementAsWritten ==
    sched.called => sched.statement = ScheduleStatement
\* C30: a run of a recurring job leaves it registered, however often it
\* runs; the job leaves the job table only in a call of unschedule_prompt
\* with its name.
C30_RecurringStaysRegistered ==
    [][\A j \in DOMAIN jobs :
          (~jobs[j].oneOff /\ j \notin DOMAIN jobs')
              => (unsch'.name = j /\ unsch'.ret = "confirmation")]_vars

C30_Witness ==
    \E j \in DOMAIN jobs :
        /\ ~jobs[j].oneOff
        /\ fired[j] = MaxFirings
        /\ MaxFirings >= 2
\* C26: every command of a text given to executeRestrictedSQL runs with the
\* statement timeout of 3 seconds and the parallel-worker cap of 0 that the
\* call installed in effect on its connection.
C26_GuardsInEffect == ~unguarded
\* C28: when two calls of updateSystemPrompt for the conversation overlap
\* and the store fails no request of its own accord, both return success,
\* and the active row is the row inserted last.
C28_LastWriterWins ==
    (overlap /\ ~faulted /\ \A p \in Updaters : upc[p] = "done")
        => /\ \A p \in Updaters : uret[p] = "success"
           /\ ActiveRows(rows) = {Len(rows)}

\* C29: the versions of the conversation's rows are pairwise distinct, and
\* each row's version is greater than the version of every row inserted
\* before it; whether the calls are sequential or overlap, and whether or
\* not the version lookup fails.
C29_VersionsIncrease ==
    \A i, j \in 1..Len(rows) : i < j => rows[i].version < rows[j].version
\* C27: of the writes of one invocation the directive turn comes first and
\* the assistant turn last, the tool effects between them, in the order the
\* database stored them; for each invocation, however the invocations
\* interleave.
C27_DirectiveToolsAnswer ==
    \A m, n \in 1..Len(persisted) :
        (m < n /\ persisted[m].invocation = persisted[n].invocation)
            => /\ persisted[n].what # "directive"
               /\ persisted[m].what # "assistant"

\* C27 witness: the writes of two invocations interleave, each with its
\* directive, a tool effect and its answer.
C27_Witness ==
    /\ Len(persisted) = 6
    /\ persisted[1] = Written(1, "directive")
    /\ persisted[2] = Written(2, "directive")
    /\ persisted[3] = Written(2, "tool")
    /\ persisted[4] = Written(1, "tool")
    /\ persisted[5] = Written(2, "assistant")
    /\ persisted[6] = Written(1, "assistant")
\* A payload that is not JSON, or lacks a required field or has it
\* ill-formed; a text that is no identifier; a text that is no job name.
MalformedPayload(r) ==
    \/ ~r.json
    \/ r.userPrompt # "given"
    \/ r.id = "missing"
    \/ r.userId = "missing"
    \/ r.incomingMessageRole = "missing"
    \/ r.callbackUrl # "given"

WordChars(text) == \A i \in 1..Len(text) : text[i] \in SafeChars

InvalidIdentifier(text) ==
    text = <<>> \/ ~WordChars(text) \/ text[1] \in {"0", "2", "4"}

InvalidJobName(text) == text = <<>> \/ ~WordChars(text)

\* Nothing is stored, dispatched or sent to the database, and no job changes.
NoSideEffect ==
    UNCHANGED <<sbVars, jobs, fired, failed, rows, messages, persisted, events>>

C21_Rejected ==
    \* the handler has taken up a malformed payload
    /\ (apc \notin {"load", "idle"} /\ request.method = "POST"
            /\ MalformedPayload(request))
        => /\ \A n \in 1..Len(events) : events[n].ev = "respond"
           /\ pool = "null" /\ jobs = <<>> /\ messages = {}
           /\ ~distinct.called /\ unsch = NoCall /\ sret = "none"
    \* get_distinct_column_values was called with an invalid identifier
    /\ (distinct.called /\ (\/ InvalidIdentifier(distinct.table_name)
                              \/ InvalidIdentifier(distinct.column_name)))
        => distinct.ret = "error" /\ ~distinct.executed
    \* unschedule_prompt was called with an invalid job name
    /\ (unsch.ret # "none" /\ InvalidJobName(unsch.name))
        => unsch.ret = "error" /\ ~unsch.executed /\ unsch.same

C21_Frame ==
    /\ (apc \notin {"load", "idle"} /\ request.method = "POST"
            /\ MalformedPayload(request))
        => UNCHANGED <<sbVars, jobs, fired, failed, rows, messages, persisted>>
    /\ (distinct' # distinct /\ distinct'.called
            /\ (\/ InvalidIdentifier(distinct'.table_name)
                 \/ InvalidIdentifier(distinct'.column_name)))
        => NoSideEffect
    /\ (unsch' # unsch /\ unsch'.ret # "none" /\ InvalidJobName(unsch'.name))
        => NoSideEffect

\* C21: every rejection for a validation error (a malformed inbound payload,
\* an invalid table or column identifier given to
\* get_distinct_column_values, an invalid job name given to
\* unschedule_prompt) comes before any side effect: no turn is stored, no
\* connection is checked out, no statement is executed, no job is changed
\* and nothing is dispatched.
C21_RejectedBeforeEffects == []C21_Rejected /\ [][C21_Frame]_vars

\* C21 witness: with a job registered and the pool built, unschedule_prompt
\* has turned down a text that is no job name.
C21_Witness ==
    /\ unsch.reason = "invalid_format"
    /\ DOMAIN jobs # {}
    /\ pool = "ready"

C32_ToolErrorIsValue ==
    [][(apc = "model" /\ toolResult'.outcome = "error") =>
          /\ toolResult'.ret = "error_value"
          /\ excepted' = excepted
          /\ steps' = steps + 1
          /\ apc' = IF StepLimit(steps') THEN "model" ELSE "final"]_vars

\* C32 witness: a step whose tool call failed was followed by a further
\* step, whose tool call failed too, and the model turn is still going on.
C32_Witness ==
    /\ apc = "model" /\ steps >= 2 /\ ~excepted
    /\ toolResult.outcome = "error" /\ toolResult.ret = "error_value"

\* C33: executeRestrictedSQL runs the caller's text only when SET ROLE, SET
\* search_path and the two SET LOCAL statements of its call have all
\* succeeded; a call in which the server refused one of them returns an
\* error and does not run the text.
C33_SetupGatesText == gate # "passed"

\* C33 witness: one restricted call had a setup statement refused and
\* returned an error; another went through its setup and returned the result
\* of its text.
C33_Witness ==
    /\ gate = "held"
    /\ \E p, q \in Procs :
          /\ kind[p] = "restricted" /\ pc[p] = "done" /\ outcome[p] = "error"
          /\ kind[q] = "restricted" /\ pc[q] = "done" /\ outcome[q] = "result"

\* C34: every statement executePrivilegedSQL runs to its end runs under the
\* default role and with the search path public, extensions, cron, whatever
\* the call that held the connection before left behind.
C34_PrivilegedAsDefault ==
    [][\A p \in Procs :
          (/\ pc[p] = "body" /\ pc'[p] = "release"
           /\ kind[p] = "privileged" /\ outcome'[p] = "result")
          => /\ conns[conn[p]].role = DefaultRole
             /\ \A f \in 0..2 :
                   LET r == handleSystemDbOperation(CheckedOut(conns[conn[p]]), f)
                   IN  r.outcome = "result" => r.conn.path = SystemPath]_vars

\* C35: a one-off job registered for a future instant T runs for the first
\* time in the minute of T, and in no minute before it, however far ahead T
\* is.
C35_FirstRunAtT ==
    /\ timer.ran => timer.ranAt = timer.T
    /\ (timer.registered /\ now >= timer.T) => timer.ran

\* C36: every step of an invocation's model turn works with the
\* personalization the invocation loaded, also after a call of
\* update_system_prompt in that turn; and an invocation that begins after a
\* call of updateSystemPrompt returned success, and whose lookup does not
\* fail, loads the text of the latest such call.
C36_NewPromptNextInvocation ==
    \A p \in Updaters :
        /\ custom[p].step # "none" => custom[p].step = custom[p].text
        /\ (custom[p].loaded /\ custom[p].found /\ custom[p].latest # "none")
              => custom[p].text = custom[p].latest
\* C37: a call of schedule_prompt never replaces a job that an earlier call
\* registered for another conversation, another kind or another job_name
\* argument: calls that differ in one of them build different job names.
C37_NoReplacementAcrossHints ==
    [][\A j \in DOMAIN jobs \cap DOMAIN jobs' :
          /\ jobs'[j].id = jobs[j].id
          /\ jobs'[j].oneOff = jobs[j].oneOff
          /\ jobs'[j].hint = jobs[j].hint]_vars

C39_OwnJobsListed ==
    \A j \in DOMAIN jobs : j \in getActiveCronJobDetails(jobs, jobs[j].id)

\* C40: unschedule_prompt of the tools made for a conversation removes only
\* jobs that this conversation registered, whatever job_name it is given.
C40_UnscheduleOwnJobs ==
    [][\A j \in DOMAIN jobs \ DOMAIN jobs' :
          unsch'.executed => jobs[j].id = boundId']_vars

====
